---- MODULE Spec2Model ----
(***************************************************************************)
(* FreshService toolkit: the request gateway (utils/api_client.py) and the *)
(* user manager (utils/user_manager.py) as a state machine.  The remote    *)
(* service is the environment: a store of requester and agent records that *)
(* answers each request, with a per-call fault chosen nondeterministically.*)
(***************************************************************************)
EXTENDS Integers, Sequences, FiniteSets, TLC

VARIABLES
    dry_run,             \* FreshServiceAPI.dry_run
    mgr_dry_run,         \* UserManager.dry_run
    request_timestamps,  \* FreshServiceAPI.request_timestamps
    now,                 \* the wall clock read by time.time(), in seconds
    recent_users,        \* UserManager.recent_users
    requesters,          \* remote store: the requester pool
    agents,              \* remote store: the agent pool
    tickets,             \* remote store: the tickets, each with its conversations
    lastOp,              \* the operation that ran last, with its arguments
    calls,               \* every _make_request call of that operation, in order
    result,              \* what the operation returned
    raised               \* TRUE iff an exception left the operation

vars == <<dry_run, mgr_dry_run, request_timestamps, now, recent_users,
          requesters, agents, tickets, lastOp, calls, result, raised>>

(***************************************************************************)
(* Bounds of the model.                                                    *)
(***************************************************************************)
MaxId == 3            \* user ids are 1..MaxId
MaxStamps == 1        \* Spec: an operation starts only with at most this many timestamps
MaxTime == 60         \* the clock is not advanced by Tick beyond this
TickStep == 30        \* seconds by which Tick advances the clock
MaxOversleep == 1     \* time.sleep may return this many seconds late
MaxCacheId == 12      \* SpecCache: the service holds users 1..MaxCacheId
MaxRepeat == 2        \* SpecCache: ids 1..MaxRepeat are looked up again and mutated
MaxCacheCalls == 6    \* SpecCache: an operation starts only with at most this many timestamps
MaxPlan == 4          \* the calls of a report a fault plan reaches
MaxScanPlan == 3      \* SpecInactive: the calls of a scan a fault plan reaches
MaxProbePlan == 5     \* SpecDiagnostics: the calls of a run a fault plan reaches
MaxPages == 3         \* SpecPages: the pages of a retrieval a fault plan reaches
MaxFetchPlan == 6     \* SpecScanning: the calls of a scan a fault plan reaches

Ids == 1..MaxId

(***************************************************************************)
(* Program constants.                                                      *)
(***************************************************************************)
RATE_LIMIT == 50
RATE_LIMIT_WINDOW == 60
max_recent_users == 10
Days == 30                \* reports.py: the default of the days parameter
ThresholdDays == 90       \* reports.py: the default of threshold_days
Today == 200              \* the day datetime.now() falls on
PerPage == 100            \* reports.py: per_page of _get_all_agents/_get_all_requesters
NON_WORKSPACE_ENDPOINTS ==
    {"requesters", "agents", "departments", "groups", "roles", "locations",
     "products", "vendors", "assets", "problems", "releases", "changes",
     "solutions", "users"}
WorkspaceId == 7      \* the workspace the manager was constructed with

(***************************************************************************)
(* Python values.  A str is a sequence of one-character strings, so that   *)
(* int() can be computed digit by digit.                                   *)
(***************************************************************************)
PyNone == [t |-> "none"]
PyTrue == [t |-> "bool", b |-> TRUE]
PyFalse == [t |-> "bool", b |-> FALSE]
PyInt(n) == [t |-> "int", i |-> n]
PyStr(s) == [t |-> "str", s |-> s]
PyList(l) == [t |-> "list", l |-> l]
PyDict(d) == [t |-> "dict", d |-> d]
PyUser(u) == [t |-> "user", u |-> u]
EmptyDict == [k \in {} |-> PyNone]

\* dict.get(key) with the default None
DictGet(r, k) == IF k \in DOMAIN r.d THEN r.d[k] ELSE PyNone

\* Python truthiness of the values the code tests
Truthy(v) ==
    CASE v.t = "none" -> FALSE
      [] v.t = "bool" -> v.b
      [] v.t = "int"  -> v.i # 0
      [] v.t = "str"  -> Len(v.s) > 0
      [] v.t = "list" -> Len(v.l) > 0
      [] v.t = "dict" -> DOMAIN v.d # {}
      [] v.t = "user" -> TRUE
      [] OTHER -> TRUE

Digits == <<"0", "1", "2", "3", "4", "5", "6", "7", "8", "9">>
DigitVal(c) == CHOOSE d \in 0..9 : Digits[d + 1] = c
IsDigit(c) == \E d \in 0..9 : Digits[d + 1] = c

RECURSIVE DigitsToInt(_)
DigitsToInt(s) ==
    IF Len(s) = 0 THEN 0
    ELSE 10 * DigitsToInt(SubSeq(s, 1, Len(s) - 1)) + DigitVal(s[Len(s)])

\* str(n) of a natural number
RECURSIVE IntStr(_)
IntStr(n) == IF n < 10 THEN <<Digits[n + 1]>>
             ELSE IntStr(n \div 10) \o <<Digits[(n % 10) + 1]>>

AllDigits(s) == Len(s) > 0 /\ \A k \in 1..Len(s) : IsDigit(s[k])

\* int(v): [ok |-> FALSE] stands for the ValueError / TypeError int() raises
IntOf(v) ==
    CASE v.t = "int" -> [ok |-> TRUE, i |-> v.i]
      [] v.t = "str" ->
           IF AllDigits(v.s) THEN [ok |-> TRUE, i |-> DigitsToInt(v.s)]
           ELSE IF Len(v.s) > 1 /\ v.s[1] = "-" /\ AllDigits(Tail(v.s))
                THEN [ok |-> TRUE, i |-> 0 - DigitsToInt(Tail(v.s))]
                ELSE [ok |-> FALSE, i |-> 0]
      [] OTHER -> [ok |-> FALSE, i |-> 0]

\* str.lower(), str in str, and the character classes of the email pattern
UpperCase == <<"A", "B", "C", "D", "E", "F", "G", "H", "I", "J", "K", "L", "M", "N", "O", "P", "Q", "R", "S", "T", "U", "V", "W", "X", "Y", "Z">>
LowerCase == <<"a", "b", "c", "d", "e", "f", "g", "h", "i", "j", "k", "l", "m", "n", "o", "p", "q", "r", "s", "t", "u", "v", "w", "x", "y", "z">>
IsUpper(c) == \E k \in 1..26 : UpperCase[k] = c
LowerChar(c) == IF IsUpper(c) THEN LowerCase[CHOOSE k \in 1..26 : UpperCase[k] = c] ELSE c
StrLower(s) == [k \in 1..Len(s) |-> LowerChar(s[k])]
StrIn(sub, s) == \E i \in 0..(Len(s) - Len(sub)) : SubSeq(s, i + 1, i + Len(sub)) = sub

Letters == {UpperCase[k] : k \in 1..26} \cup {LowerCase[k] : k \in 1..26}
LocalChars == Letters \cup {Digits[k] : k \in 1..10} \cup {".", "_", "%", "+", "-"}
DomainChars == Letters \cup {Digits[k] : k \in 1..10} \cup {".", "-"}
AllIn(s, lo, hi, class) == \A k \in lo..hi : s[k] \in class

\* the pattern without its top-level domain: ^[a-zA-Z0-9._%+-]+@[a-zA-Z0-9.-]+$
IsValidEmailNoTld(s) ==
    \E at \in 2..(Len(s) - 1) :
        /\ s[at] = "@" /\ AllIn(s, 1, at - 1, LocalChars)
        /\ AllIn(s, at + 1, Len(s), DomainChars)

\* UserManager._is_valid_email: re.match of
\*   ^[a-zA-Z0-9._%+-]+@[a-zA-Z0-9.-]+\.[a-zA-Z]{2,}$
\* on the characters of s; $ also matches before one trailing newline.
IsValidEmail(s) ==
    \E end \in {Len(s)} \cup (IF Len(s) > 0 /\ s[Len(s)] = "\n" THEN {Len(s) - 1} ELSE {}) :
      \E at \in 2..end, dot \in 3..end :
        /\ s[at] = "@" /\ AllIn(s, 1, at - 1, LocalChars)
        /\ dot > at + 1 /\ s[dot] = "." /\ AllIn(s, at + 1, dot - 1, DomainChars)
        /\ end - dot >= 2 /\ AllIn(s, dot + 1, end, Letters)

(***************************************************************************)
(* Endpoints, URLs and transport responses.                                *)
(***************************************************************************)
Endpoint(res, id, sub) == [res |-> res, id |-> id, sub |-> sub]
NoWorkspace == 0

\* utils/api_client.py:161-182: the path the URL is built from
WorkspaceEndpoint(endpoint, workspace_id) ==
    IF workspace_id # NoWorkspace
       /\ endpoint.res \notin NON_WORKSPACE_ENDPOINTS
       /\ endpoint.res # "workspaces"
    THEN [ws |-> workspace_id, ep |-> endpoint]
    ELSE [ws |-> NoWorkspace, ep |-> endpoint]

\* a response of the transport: retry_after is its Retry-After header,
\* PyNone when it has none
HttpRespRetry(status, body, retry_after) ==
    [kind |-> "http", status |-> status, body |-> body, retry_after |-> retry_after]
HttpResp(status, body) == HttpRespRetry(status, body, PyNone)
NetError == [kind |-> "neterr", status |-> 0, body |-> [t |-> "empty"], retry_after |-> PyNone]
EmptyBody == [t |-> "empty"]
JsonBody(v) == [t |-> "json", v |-> v]
TextBody == [t |-> "text"]

NoExc == [raised |-> FALSE, status |-> 0]
Exc(status) == [raised |-> TRUE, status |-> status]

SeqMin(s) == CHOOSE m \in {s[k] : k \in 1..Len(s)} : \A k \in 1..Len(s) : m <= s[k]

\* the cap test off by one
AtLimitStrict(n) == n > RATE_LIMIT

\* line 120: the cap test
AtLimit(n) == n >= RATE_LIMIT

\* a wait that ends one second before the oldest request leaves the window
WaitForShort(now_, oldest_request) == RATE_LIMIT_WINDOW - (now_ - oldest_request) - 1

\* line 123: wait_time = self.RATE_LIMIT_WINDOW - (now - oldest_request)
WaitFor(now_, oldest_request) == RATE_LIMIT_WINDOW - (now_ - oldest_request)

(***************************************************************************)
(* FreshServiceAPI._check_rate_limit: prune, and sleep when at the cap.    *)
(* g is the gateway state [ts, now]; over is how late the sleep returns.   *)
(***************************************************************************)
CheckRateLimit(g, over) ==
    LET window_start == g.now - RATE_LIMIT_WINDOW
        WaitTime(oldest_request) == WaitFor(g.now, oldest_request)
        Slept(pruned, oldest_request) ==
            [ts |-> pruned,
             now |-> IF AtLimit(Len(pruned)) /\ WaitTime(oldest_request) > 0
                     THEN g.now + WaitTime(oldest_request) + over ELSE g.now,
             cnt |-> Len(pruned),
             oldest |-> oldest_request]
        Pruned(pruned) == Slept(pruned, IF Len(pruned) > 0 THEN SeqMin(pruned) ELSE g.now)
    IN  Pruned(SelectSeq(g.ts, LAMBDA ts : ts > window_start))

\* the interception keyed on the method list of the logging lines 188 and 194
SkipsTransportPutPost(dry, method) == dry /\ method \in {"PUT", "POST"}

\* line 199: the dry-run interception
SkipsTransport(dry, method) == dry /\ method # "GET"

SyntheticSuccess == PyDict([dry_run |-> PyTrue, success |-> PyTrue])

\* what _make_request returns for a response with status < 400 (lines 301-310)
ParseResponse(resp) ==
    CASE resp.body.t = "empty" -> PyDict(EmptyDict)
      [] resp.body.t = "json"  -> resp.body.v
      [] OTHER                 -> PyDict([text |-> PyTrue])

\* error_details: response.json(), or None when the body is not JSON
\* (lines 269-279)
ErrorDetails(resp) == IF resp.body.t = "json" THEN resp.body.v ELSE PyNone

\* lines 292-298: the value returned for a status >= 400 in diagnostic mode;
\* the error text starts with the status code (line 249)
DiagFailure(status, response) ==
    PyDict([success |-> PyFalse, error |-> PyStr(IntStr(status)),
            status_code |-> PyInt(status), response |-> response])

\* an exception raised inside the try block, as the handler of line 312
\* reads it: Exception(error_message) has no attribute response, an
\* exception of the transport has one and it is None
MessageException(status) == [status |-> status, has_response |-> FALSE, response |-> PyNone]
TransportException == [status |-> 0, has_response |-> TRUE, response |-> PyNone]

\* line 317: hasattr(e, 'response') and e.response and
\* e.response.status_code == 429; a response object is truthy when its
\* status is below 400
RateLimited(e) ==
    /\ e.has_response
    /\ e.response # PyNone
    /\ e.response.status < 400
    /\ e.response.status = 429

\* line 318: int(e.response.headers.get('Retry-After', self.RATE_LIMIT_WINDOW))
RetryAfter(response) ==
    IF response.retry_after = PyNone THEN RATE_LIMIT_WINDOW
    ELSE IntOf(response.retry_after).i

\* the 404 of an audit_logs endpoint raising in diagnostic mode too
AuditLogsNotFoundRaises(diagnostic) ==
    [raised |-> TRUE, ret |-> PyNone, e |-> MessageException(404)]

\* lines 252-266: the 404 of an audit_logs endpoint
AuditLogsNotFound(diagnostic) ==
    IF diagnostic
    THEN [raised |-> FALSE, e |-> MessageException(404),
          ret |-> DiagFailure(404, PyDict([audit_logs |-> PyList(<<>>)]))]
    ELSE [raised |-> TRUE, ret |-> PyNone, e |-> MessageException(404)]

\* the handler re-raising in diagnostic mode too
ExceptHandlerReraises(diagnostic, e) == [ret |-> PyNone, exc |-> Exc(e.status)]

\* lines 312-346: the handler of the try block
ExceptHandler(diagnostic, e) ==
    IF RateLimited(e)
    THEN IF diagnostic
         THEN [ret |-> PyDict([success |-> PyFalse, error |-> PyStr(<<"R">>),
                               status_code |-> PyInt(429),
                               retry_after |-> PyInt(RetryAfter(e.response))]),
               exc |-> NoExc]
         ELSE [ret |-> PyNone, exc |-> Exc(429)]
    ELSE IF diagnostic
    THEN [ret |-> PyDict([success |-> PyFalse, error |-> PyStr(<<"A">>),
                          exception_type |-> PyStr(<<"E">>)]),
          exc |-> NoExc]
    ELSE [ret |-> PyNone, exc |-> Exc(e.status)]

(***************************************************************************)
(* FreshServiceAPI._make_request.  resp is what the transport answers if   *)
(* the request is handed to it.  The value is                              *)
(*   [ts, now]  the gateway state after the call,                          *)
(*   call       the record of the call (handed: given to the transport;    *)
(*              diag and retry_after: the _diagnostic argument and the     *)
(*              Retry-After header of the answer),                         *)
(*   ret, exc   the value returned, or the exception raised.               *)
(***************************************************************************)
MakeRequest(g, dry, method, endpoint, data, workspace_id, expect_no_content, diagnostic, resp, over) ==
    LET skip == SkipsTransport(dry, method)
        Returns(v) == [raised |-> FALSE, ret |-> v, e |-> MessageException(0)]
        Raises(e) == [raised |-> TRUE, ret |-> PyNone, e |-> e]
        TryBlock ==
            IF resp.kind = "neterr" THEN Raises(TransportException)
            ELSE IF expect_no_content /\ resp.status = 204 THEN Returns(PyTrue)
            ELSE IF resp.status >= 400
            THEN IF resp.status = 404 /\ endpoint.res = "audit_logs"
                 THEN AuditLogsNotFound(diagnostic)
                 ELSE IF diagnostic
                      THEN Returns(DiagFailure(resp.status, ErrorDetails(resp)))
                      ELSE Raises(MessageException(resp.status))
            ELSE Returns(ParseResponse(resp))
        Handled(t) == IF t.raised THEN ExceptHandler(diagnostic, t.e)
                      ELSE [ret |-> t.ret, exc |-> NoExc]
        Answer(rl, url, o) ==
            [ts |-> IF skip THEN rl.ts ELSE Append(rl.ts, rl.now),
             now |-> rl.now,
             call |-> [method |-> method, url |-> url, data |-> data,
                       handed |-> ~skip, status |-> IF skip THEN 0 ELSE resp.status,
                       t_call |-> g.now, t_send |-> rl.now,
                       cnt |-> rl.cnt, oldest |-> rl.oldest, fault |-> "none",
                       diag |-> diagnostic, retry_after |-> resp.retry_after],
             ret |-> o.ret, exc |-> o.exc]
    IN  Answer(CheckRateLimit(g, over), WorkspaceEndpoint(endpoint, workspace_id),
               IF skip THEN [ret |-> SyntheticSuccess, exc |-> NoExc] ELSE Handled(TryBlock))

(***************************************************************************)
(* The remote service.  A record of a pool is NoUser or a payload          *)
(*   [id, pool, is_agent, active, first_name, department_ids]              *)
(* where pool names the collection that holds it and is_agent is the value *)
(* user.get("is_agent", False) reads from the payload.                     *)
(***************************************************************************)
NoUser == [id |-> 0, pool |-> "none", is_agent |-> FALSE, active |-> FALSE,
           first_name |-> PyStr(<<>>), department_ids |-> PyList(<<>>)]
User(id, pool, flag) ==
    [id |-> id, pool |-> pool, is_agent |-> flag, active |-> TRUE,
     first_name |-> PyStr(<<"Z">>), department_ids |-> PyList(<<>>)]

Singular(res) == IF res = "agents" THEN "agent" ELSE "requester"

\* dict.update on a payload: the keys of d overwrite the payload's
Merge(u, d) == [k \in DOMAIN u |-> IF k \in DOMAIN d THEN d[k] ELSE u[k]]

\* a payload that also carries the fields the searches read
Person(id, pool, flag, first, last, email) ==
    [id |-> id, pool |-> pool, is_agent |-> flag, active |-> TRUE,
     first_name |-> first, last_name |-> last, email |-> email,
     department_ids |-> PyList(<<>>)]

\* user.get(key)
UserGet(u, k) == IF k \in DOMAIN u THEN u[k] ELSE PyNone

\* (value or "").lower() of a name field
NameLower(v) == IF v.t = "str" THEN StrLower(v.s) ELSE <<>>

\* what the environment may do to one call: answer it from the store ("none"),
\* drop the connection, answer 500, or answer 200 with an unexpected body
Faults == {"none", "neterr", "http500", "empty", "errfield", "list", "text"}
GetFaults == {"none", "http500", "empty"}

FaultResp(fault) ==
    CASE fault = "neterr"   -> NetError
      [] fault = "http500"  -> HttpResp(500, TextBody)
      [] fault = "empty"    -> HttpResp(200, JsonBody(PyDict(EmptyDict)))
      [] fault = "errfield" -> HttpResp(200, JsonBody(PyDict([error |-> PyTrue])))
      [] fault = "list"     -> HttpResp(200, JsonBody(PyList(<<PyInt(1)>>)))
      [] fault = "http400"  -> HttpResp(400, TextBody)
      [] fault = "nondict"  -> HttpResp(200, JsonBody(PyDict(("tickets" :> PyList(<<PyInt(1)>>)))))
      [] fault = "badconv"  ->
           HttpResp(200, JsonBody(PyDict(("ticket" :>
               [t |-> "ticket",
                k |-> [id |-> 0, requester_id |-> 0, responder_id |-> PyNone,
                       created_at |-> PyNone, watched |-> FALSE,
                       conversations |-> <<PyInt(1)>>]]))))
      [] OTHER              -> HttpResp(200, TextBody)

\* the records a pool holds, by id
Records(pool) == SelectSeq([i \in 1..Cardinality(DOMAIN pool) |-> pool[i]], LAMBDA u : u # NoUser)

\* the service's reading of the structured name query
QueryMatches(u, q) ==
    CASE q.field = "first_name" -> StrIn(StrLower(q.term), NameLower(UserGet(u, "first_name")))
      [] q.field = "last_name"  -> StrIn(StrLower(q.term), NameLower(UserGet(u, "last_name")))
      [] OTHER -> StrIn(StrLower(q.term),
                        NameLower(UserGet(u, "first_name")) \o <<" ">>
                          \o NameLower(UserGet(u, "last_name")))

\* The service's answer to GET requesters or GET agents with the query
\* parameters params: the collection, filtered by email or by the name query.
ListResp(st, endpoint, params) ==
    LET key == endpoint.res
        base == IF endpoint.res = "agents" THEN Records(st.ag)
                ELSE IF "include_agents" \in DOMAIN params
                THEN Records(st.rq)
                       \o SelectSeq(Records(st.ag), LAMBDA a : st.rq[a.id] = NoUser)
                ELSE Records(st.rq)
        Keep(u) == /\ "email" \in DOMAIN params => UserGet(u, "email") = params["email"]
                   /\ "query" \in DOMAIN params => QueryMatches(u, params["query"])
        Listed(us) == HttpResp(200, JsonBody(PyDict((key :> PyList([k \in 1..Len(us) |-> PyUser(us[k])])))))
        ParamInt(k, default) == IF k \in DOMAIN params /\ params[k].t = "int" THEN params[k].i
                           ELSE default
        PageOf(us, page, size) == SubSeq(us, (page - 1) * size + 1,
                                         IF page * size < Len(us) THEN page * size ELSE Len(us))
        Paged(us) == IF "per_page" \in DOMAIN params
                     THEN PageOf(us, ParamInt("page", 1), ParamInt("per_page", 1))
                     ELSE us
    IN  Listed(Paged(SelectSeq(base, Keep)))

\* a page of the collection with per_page records on it: the answer of a
\* service that holds more records than the store of the model
FullPage(endpoint, params) ==
    LET Full(page, size) ==
            HttpResp(200, JsonBody(PyDict((endpoint.res :>
                PyList([k \in 1..size |-> PyInt((page - 1) * size + k)])))))
    IN  Full(params["page"].i, params["per_page"].i)

\* A ticket of the service: who raised it, who it is assigned to (PyNone:
\* nobody), whether the caller watches it, and its conversations.
Ticket(id, requester_id, responder_id, created_at, watched, conversations) ==
    [id |-> id, requester_id |-> requester_id, responder_id |-> responder_id,
     created_at |-> created_at, watched |-> watched, conversations |-> conversations]
Conversation(id, user_id, created_at) ==
    [id |-> id, user_id |-> user_id, created_at |-> created_at]
PyTicket(k) == [t |-> "ticket", k |-> k]

\* The service's answer to GET tickets with the query parameters params (the
\* listing, without conversations) and to GET tickets/{id}?include=conversations.
TicketResp(st, endpoint, params) ==
    LET Keep(k) ==
            /\ "requester_id" \in DOMAIN params => params["requester_id"] = PyInt(k.requester_id)
            /\ "email" \in DOMAIN params =>
                  \E i \in DOMAIN st.rq : /\ i = k.requester_id /\ st.rq[i] # NoUser
                                          /\ UserGet(st.rq[i], "email") = params["email"]
            /\ "filter" \in DOMAIN params => k.watched
        Listed(ks) ==
            HttpResp(200, JsonBody(PyDict(("tickets" :>
                PyList([i \in 1..Len(ks) |-> PyTicket([ks[i] EXCEPT !.conversations = <<>>])])))))
        Held == {i \in 1..Len(st.tk) : st.tk[i].id = endpoint.id}
    IN  IF endpoint.id = 0 THEN Listed(SelectSeq(st.tk, Keep))
        ELSE IF Held # {}
        THEN HttpResp(200, JsonBody(PyDict(("ticket" :> PyTicket(st.tk[CHOOSE i \in Held : TRUE])))))
        ELSE HttpResp(404, TextBody)

\* The service's answer to a request on the user resources, and the store after it.
Serve(st, method, endpoint, data, fault) ==
    LET pool == IF endpoint.res = "agents" THEN st.ag ELSE st.rq
        rec == pool[endpoint.id]
        key == Singular(endpoint.res)
        put(r) == IF endpoint.res = "agents"
                  THEN [st EXCEPT !.ag[endpoint.id] = r]
                  ELSE [st EXCEPT !.rq[endpoint.id] = r]
        echo(r) == HttpResp(200, JsonBody(PyDict((key :> PyUser(r)))))
    IN  IF fault = "full" THEN [resp |-> FullPage(endpoint, data), st |-> st]
        ELSE IF fault # "none" THEN [resp |-> FaultResp(fault), st |-> st]
        ELSE IF method = "GET" /\ endpoint.res = "tickets"
        THEN [resp |-> TicketResp(st, endpoint, data), st |-> st]
        ELSE IF method = "GET" /\ endpoint.id = 0
        THEN [resp |-> ListResp(st, endpoint, data), st |-> st]
        ELSE IF rec = NoUser THEN [resp |-> HttpResp(404, TextBody), st |-> st]
        ELSE IF method = "GET" THEN [resp |-> echo(rec), st |-> st]
        ELSE IF method = "PUT" /\ endpoint.sub = "reactivate"
        THEN [resp |-> echo([rec EXCEPT !.active = TRUE]),
              st |-> put([rec EXCEPT !.active = TRUE])]
        ELSE IF method = "PUT"
        THEN [resp |-> echo(Merge(rec, data)), st |-> put(Merge(rec, data))]
        ELSE IF method = "DELETE" /\ endpoint.sub = "forget"
        THEN [resp |-> HttpResp(204, EmptyBody), st |-> put(NoUser)]
        ELSE IF method = "DELETE"
        THEN [resp |-> HttpResp(204, EmptyBody), st |-> put([rec EXCEPT !.active = FALSE])]
        ELSE [resp |-> HttpResp(404, TextBody), st |-> st]

(***************************************************************************)
(* The machine state an operation threads through its calls:               *)
(*   [dry, ts, now, ru, st, calls]                                         *)
(* the gateway's flag, timestamps and clock, the cache, the remote store   *)
(* and the calls made so far.                                              *)
(***************************************************************************)
ApiCall(m, method, endpoint, data, workspace_id, expect_no_content, diagnostic, fault) ==
    LET Answered(sv, r) ==
            [m |-> [m EXCEPT !.ts = r.ts, !.now = r.now,
                             !.st = IF r.call.handed THEN sv.st ELSE m.st,
                             !.calls = Append(m.calls, [r.call EXCEPT !.fault = fault])],
             ret |-> r.ret, exc |-> r.exc]
        Served(sv) ==
            Answered(sv, MakeRequest([ts |-> m.ts, now |-> m.now], m.dry, method, endpoint,
                                     data, workspace_id, expect_no_content, diagnostic,
                                     sv.resp, 0))
    IN  Served(Serve(m.st, method, endpoint, data, fault))

\* a call without the _diagnostic argument
Api(m, method, endpoint, data, workspace_id, expect_no_content, fault) ==
    ApiCall(m, method, endpoint, data, workspace_id, expect_no_content, FALSE, fault)

\* FreshServiceAPI.get
ApiGet(m, endpoint, workspace_id, fault) ==
    Api(m, "GET", endpoint, EmptyDict, workspace_id, FALSE, fault)

\* FreshServiceAPI.get with query parameters
ApiGetParams(m, endpoint, params, workspace_id, fault) ==
    Api(m, "GET", endpoint, params, workspace_id, FALSE, fault)

\* put sending the request once more when the first attempt raised
ApiPutRetry(m, endpoint, data, workspace_id, fault) ==
    LET Again(a) == IF a.exc.raised
                    THEN Api(a.m, "PUT", endpoint, data, workspace_id, FALSE, fault)
                    ELSE a
    IN  Again(Api(m, "PUT", endpoint, data, workspace_id, FALSE, fault))

\* FreshServiceAPI.put
ApiPut(m, endpoint, data, workspace_id, fault) ==
    Api(m, "PUT", endpoint, data, workspace_id, FALSE, fault)

\* The parameters FreshServiceAPI.delete declares besides self.
DeleteParams == {"endpoint", "workspace_id"}

\* FreshServiceAPI.delete called with the keyword arguments kwargs: Python
\* raises TypeError, before the body runs, for a keyword the method lacks.
ApiDelete(m, endpoint, workspace_id, kwargs, fault) ==
    IF kwargs \subseteq DeleteParams
    THEN Api(m, "DELETE", endpoint, EmptyDict, workspace_id, TRUE, fault)
    ELSE [m |-> m, ret |-> PyNone, exc |-> Exc(0)]

\* _add_to_recent_users without the removal of the earlier copy
AddToRecentUsersNoDedupe(ru, user) ==
    LET inserted == <<user>> \o ru
    IN  IF Len(inserted) > max_recent_users
        THEN SubSeq(inserted, 1, max_recent_users) ELSE inserted

\* _add_to_recent_users without the trim to max_recent_users
AddToRecentUsersNoTrim(ru, user) ==
    <<user>> \o SelectSeq(ru, LAMBDA u : u.id # user.id)

\* UserManager._add_to_recent_users
AddToRecentUsers(ru, user) ==
    LET kept == SelectSeq(ru, LAMBDA u : u.id # user.id)
        inserted == <<user>> \o kept
    IN  IF Len(inserted) > max_recent_users
        THEN SubSeq(inserted, 1, max_recent_users) ELSE inserted

\* One try-block of get_user_by_id: GET {res}/{id}, read the payload under
\* key, cache it.  exc: an exception left the block (the request raised, or
\* the response has no .get).
LookupIn(m, res, user_id, fault) ==
    LET Got(r) ==
            LET user == DictGet(r.ret, Singular(res))
            IN  IF r.exc.raised \/ r.ret.t # "dict"
                THEN [m |-> r.m, ret |-> PyNone, exc |-> TRUE]
                ELSE IF Truthy(user)
                THEN [m |-> [r.m EXCEPT !.ru = AddToRecentUsers(r.m.ru, user.u)],
                      ret |-> user, exc |-> FALSE]
                ELSE [m |-> r.m, ret |-> PyNone, exc |-> FALSE]
    IN  Got(ApiGet(m, Endpoint(res, user_id, ""), WorkspaceId, fault))

\* get_user_by_id giving up when the requester block failed
GetUserByIdOneBlock(m, user_id, f1, f2) ==
    LET Swallow(b) == [b EXCEPT !.exc = FALSE]
        First(a) == IF a.ret.t # "none" \/ a.exc THEN Swallow(a)
                    ELSE Swallow(LookupIn(a.m, "agents", user_id, f2))
    IN  First(LookupIn(m, "requesters", user_id, f1))

\* UserManager.get_user_by_id: [m, ret, exc], ret is PyUser(u) or PyNone.
\* Each block's except clause swallows the block's exception.
GetUserById(m, user_id, f1, f2) ==
    LET Swallow(b) == [b EXCEPT !.exc = FALSE]
        First(a) == IF a.ret.t # "none" THEN Swallow(a)
                    ELSE Swallow(LookupIn(a.m, "agents", user_id, f2))
    IN  First(LookupIn(m, "requesters", user_id, f1))

\* _is_agent answering True from its except clause
IsAgentOnError(m, user_id, f) ==
    LET Probed(r) ==
            [m |-> r.m,
             ret |-> r.exc.raised \/ (r.ret.t = "dict" /\ "agent" \in DOMAIN r.ret.d)]
    IN  Probed(ApiGet(m, Endpoint("agents", user_id, ""), NoWorkspace, f))

\* UserManager._is_agent: [m, ret], ret a BOOLEAN
IsAgent(m, user_id, f) ==
    LET Probed(r) ==
            [m |-> r.m,
             ret |-> ~r.exc.raised /\ r.ret.t = "dict" /\ "agent" \in DOMAIN r.ret.d]
    IN  Probed(ApiGet(m, Endpoint("agents", user_id, ""), NoWorkspace, f))

\* the coercion wrapping a scalar without int()
CoerceDepartmentIdsNoInt(value) ==
    IF value.t = "list"
    THEN [ok |-> \A k \in 1..Len(value.l) : IntOf(value.l[k]).ok,
          v |-> PyList([k \in 1..Len(value.l) |-> PyInt(IntOf(value.l[k]).i)])]
    ELSE [ok |-> TRUE, v |-> PyList(<<value>>)]

\* the department_ids coercion of update_user (lines 493-500)
CoerceDepartmentIds(value) ==
    IF value.t = "list"
    THEN [ok |-> \A k \in 1..Len(value.l) : IntOf(value.l[k]).ok,
          v |-> PyList([k \in 1..Len(value.l) |-> PyInt(IntOf(value.l[k]).i)])]
    ELSE [ok |-> IntOf(value).ok, v |-> PyList(<<PyInt(IntOf(value).i)>>)]

\* the loop that builds processed_data (lines 488-502)
ProcessData(update_data) ==
    [ok |-> "department_ids" \in DOMAIN update_data
               => CoerceDepartmentIds(update_data["department_ids"]).ok,
     d |-> [k \in DOMAIN update_data |->
              IF k = "department_ids"
              THEN CoerceDepartmentIds(update_data[k]).v
              ELSE update_data[k]]]

\* the dry-run preview built by updating current_user itself, the dict the
\* cache holds, instead of a copy of it
SimulateUpdateInPlace(cur, update_data) ==
    IF cur.ret.t # "none"
    THEN [m |-> [cur.m EXCEPT !.ru = AddToRecentUsers(@, Merge(cur.ret.u, update_data))],
          ret |-> PyUser(Merge(cur.ret.u, update_data)), exc |-> FALSE]
    ELSE [m |-> cur.m, ret |-> PyNone, exc |-> FALSE]

\* lines 478-485: the dry-run preview, current_user.copy() updated with
\* update_data; cur is what get_user_by_id gave
SimulateUpdate(cur, update_data) ==
    IF cur.ret.t # "none"
    THEN [m |-> cur.m, ret |-> PyUser(Merge(cur.ret.u, update_data)), exc |-> FALSE]
    ELSE [m |-> cur.m, ret |-> PyNone, exc |-> FALSE]

\* The body of update_user's try block: [m, ret, exc]
UpdateUserBody(m, mdry, user_id, update_data, f1, f2, f3) ==
    LET Simulated(cur) == SimulateUpdate(cur, update_data)
        Sent(r, endpoint) ==
            LET updated_user == DictGet(r.ret, Singular(endpoint))
            IN  IF r.exc.raised \/ r.ret.t # "dict"
                THEN [m |-> r.m, ret |-> PyNone, exc |-> TRUE]
                ELSE IF Truthy(updated_user)
                THEN [m |-> [r.m EXCEPT !.ru = AddToRecentUsers(r.m.ru, updated_user.u)],
                      ret |-> updated_user, exc |-> FALSE]
                ELSE [m |-> r.m, ret |-> PyNone, exc |-> FALSE]
        Processed(probe, endpoint, processed) ==
            IF ~processed.ok THEN [m |-> probe.m, ret |-> PyNone, exc |-> TRUE]
            ELSE Sent(ApiPut(probe.m, Endpoint(endpoint, user_id, ""), processed.d,
                             NoWorkspace, f2), endpoint)
        Probed(probe) ==
            LET endpoint == IF probe.ret THEN "agents" ELSE "requesters"
            IN  IF mdry THEN Simulated(GetUserById(probe.m, user_id, f2, f3))
                ELSE Processed(probe, endpoint, ProcessData(update_data))
    IN  Probed(IsAgent(m, user_id, f1))

\* an operation without its except clause
HandleNothing(body, failure) == body

\* "except Exception: ... return <failure>": the handler that ends each operation
Handle(body, failure) ==
    LET Caught(b) == IF b.exc THEN [m |-> b.m, ret |-> failure, exc |-> FALSE] ELSE b
    IN  Caught(body)

\* UserManager.update_user
UpdateUser(m, mdry, user_id, update_data, f1, f2, f3) ==
    Handle(UpdateUserBody(m, mdry, user_id, update_data, f1, f2, f3), PyNone)

\* the loop that patches the first cached copy's active flag
PatchActive(ru, user_id, flag) ==
    LET hits == {k \in 1..Len(ru) : ru[k].id = user_id}
        first == CHOOSE k \in hits : \A j \in hits : k <= j
    IN  IF hits = {} THEN ru ELSE [ru EXCEPT ![first].active = flag]

\* deactivate_user answering True where the user was not found
DeactivateUserBodyNotFoundTrue(m, mdry, user_id, f1, f2, f3) ==
    LET Deleted(r) ==
            IF r.exc.raised THEN [m |-> r.m, ret |-> PyNone, exc |-> TRUE]
            ELSE IF Truthy(r.ret)
            THEN [m |-> [r.m EXCEPT !.ru = PatchActive(r.m.ru, user_id, FALSE)],
                  ret |-> PyTrue, exc |-> FALSE]
            ELSE [m |-> r.m, ret |-> PyFalse, exc |-> FALSE]
        Found(found) ==
            LET endpoint == IF found.ret.u.is_agent THEN "agents" ELSE "requesters"
            IN  IF found.ret.t = "none" THEN [m |-> found.m, ret |-> PyTrue, exc |-> FALSE]
                ELSE Deleted(ApiDelete(found.m, Endpoint(endpoint, user_id, ""), WorkspaceId,
                                       {"workspace_id", "expect_no_content"}, f3))
    IN  IF mdry THEN [m |-> m, ret |-> PyTrue, exc |-> FALSE]
        ELSE Found(GetUserById(m, user_id, f1, f2))

\* The body of deactivate_user's try block
DeactivateUserBody(m, mdry, user_id, f1, f2, f3) ==
    LET Deleted(r) ==
            IF r.exc.raised THEN [m |-> r.m, ret |-> PyNone, exc |-> TRUE]
            ELSE IF Truthy(r.ret)
            THEN [m |-> [r.m EXCEPT !.ru = PatchActive(r.m.ru, user_id, FALSE)],
                  ret |-> PyTrue, exc |-> FALSE]
            ELSE [m |-> r.m, ret |-> PyFalse, exc |-> FALSE]
        Found(found) ==
            LET endpoint == IF found.ret.u.is_agent THEN "agents" ELSE "requesters"
            IN  IF found.ret.t = "none" THEN [m |-> found.m, ret |-> PyFalse, exc |-> FALSE]
                ELSE Deleted(ApiDelete(found.m, Endpoint(endpoint, user_id, ""), WorkspaceId,
                                       {"workspace_id", "expect_no_content"}, f3))
    IN  IF mdry THEN [m |-> m, ret |-> PyTrue, exc |-> FALSE]
        ELSE Found(GetUserById(m, user_id, f1, f2))

\* UserManager.deactivate_user
DeactivateUser(m, mdry, user_id, f1, f2, f3) ==
    Handle(DeactivateUserBody(m, mdry, user_id, f1, f2, f3), PyFalse)

\* forget_user answering True where the user is an agent
ForgetUserBodyAgentTrue(m, mdry, user_id, f1, f2, f3) ==
    LET Deleted(r) ==
            IF r.exc.raised THEN [m |-> r.m, ret |-> PyNone, exc |-> TRUE]
            ELSE IF Truthy(r.ret)
            THEN [m |-> [r.m EXCEPT !.ru = SelectSeq(r.m.ru, LAMBDA u : u.id # user_id)],
                  ret |-> PyTrue, exc |-> FALSE]
            ELSE [m |-> r.m, ret |-> PyFalse, exc |-> FALSE]
        Found(found) ==
            IF found.ret.t = "none" THEN [m |-> found.m, ret |-> PyFalse, exc |-> FALSE]
            ELSE IF found.ret.u.is_agent THEN [m |-> found.m, ret |-> PyTrue, exc |-> FALSE]
            ELSE Deleted(ApiDelete(found.m, Endpoint("requesters", user_id, "forget"),
                                   WorkspaceId, {"workspace_id", "expect_no_content"}, f3))
    IN  IF mdry THEN [m |-> m, ret |-> PyTrue, exc |-> FALSE]
        ELSE Found(GetUserById(m, user_id, f1, f2))

\* forget_user testing self.dry_run after the lookup instead of before it
ForgetUserBodyLooksUpFirst(m, mdry, user_id, f1, f2, f3) ==
    LET Deleted(r) ==
            IF r.exc.raised THEN [m |-> r.m, ret |-> PyNone, exc |-> TRUE]
            ELSE IF Truthy(r.ret)
            THEN [m |-> [r.m EXCEPT !.ru = SelectSeq(r.m.ru, LAMBDA u : u.id # user_id)],
                  ret |-> PyTrue, exc |-> FALSE]
            ELSE [m |-> r.m, ret |-> PyFalse, exc |-> FALSE]
        Found(found) ==
            IF mdry THEN [m |-> found.m, ret |-> PyTrue, exc |-> FALSE]
            ELSE IF found.ret.t = "none" THEN [m |-> found.m, ret |-> PyFalse, exc |-> FALSE]
            ELSE IF found.ret.u.is_agent THEN [m |-> found.m, ret |-> PyFalse, exc |-> FALSE]
            ELSE Deleted(ApiDelete(found.m, Endpoint("requesters", user_id, "forget"),
                                   WorkspaceId, {"workspace_id", "expect_no_content"}, f3))
    IN  Found(GetUserById(m, user_id, f1, f2))

\* The body of forget_user's try block
ForgetUserBody(m, mdry, user_id, f1, f2, f3) ==
    LET Deleted(r) ==
            IF r.exc.raised THEN [m |-> r.m, ret |-> PyNone, exc |-> TRUE]
            ELSE IF Truthy(r.ret)
            THEN [m |-> [r.m EXCEPT !.ru = SelectSeq(r.m.ru, LAMBDA u : u.id # user_id)],
                  ret |-> PyTrue, exc |-> FALSE]
            ELSE [m |-> r.m, ret |-> PyFalse, exc |-> FALSE]
        Found(found) ==
            IF found.ret.t = "none" THEN [m |-> found.m, ret |-> PyFalse, exc |-> FALSE]
            ELSE IF found.ret.u.is_agent THEN [m |-> found.m, ret |-> PyFalse, exc |-> FALSE]
            ELSE Deleted(ApiDelete(found.m, Endpoint("requesters", user_id, "forget"),
                                   WorkspaceId, {"workspace_id", "expect_no_content"}, f3))
    IN  IF mdry THEN [m |-> m, ret |-> PyTrue, exc |-> FALSE]
        ELSE Found(GetUserById(m, user_id, f1, f2))

\* UserManager.forget_user
ForgetUser(m, mdry, user_id, f1, f2, f3) ==
    Handle(ForgetUserBody(m, mdry, user_id, f1, f2, f3), PyFalse)

\* activate_user leaving the cache as it is
ActivateUserBodyNoPatch(m, mdry, user_id, f1, f2, f3) ==
    LET Reactivated(r) ==
            IF r.exc.raised THEN [m |-> r.m, ret |-> PyNone, exc |-> TRUE]
            ELSE IF ~Truthy(r.ret) THEN [m |-> r.m, ret |-> PyFalse, exc |-> FALSE]
            ELSE IF r.ret.t # "dict" THEN [m |-> r.m, ret |-> PyNone, exc |-> TRUE]
            ELSE IF ~Truthy(DictGet(r.ret, "error"))
            THEN [m |-> r.m,
                  ret |-> PyTrue, exc |-> FALSE]
            ELSE [m |-> r.m, ret |-> PyFalse, exc |-> FALSE]
        Found(found) ==
            LET endpoint == IF found.ret.u.is_agent THEN "agents" ELSE "requesters"
            IN  IF found.ret.t = "none" THEN [m |-> found.m, ret |-> PyFalse, exc |-> FALSE]
                ELSE Reactivated(ApiPut(found.m, Endpoint(endpoint, user_id, "reactivate"),
                                        EmptyDict, WorkspaceId, f3))
    IN  IF mdry THEN [m |-> m, ret |-> PyTrue, exc |-> FALSE]
        ELSE Found(GetUserById(m, user_id, f1, f2))

\* The body of activate_user's try block
ActivateUserBody(m, mdry, user_id, f1, f2, f3) ==
    LET Reactivated(r) ==
            IF r.exc.raised THEN [m |-> r.m, ret |-> PyNone, exc |-> TRUE]
            ELSE IF ~Truthy(r.ret) THEN [m |-> r.m, ret |-> PyFalse, exc |-> FALSE]
            ELSE IF r.ret.t # "dict" THEN [m |-> r.m, ret |-> PyNone, exc |-> TRUE]
            ELSE IF ~Truthy(DictGet(r.ret, "error"))
            THEN [m |-> [r.m EXCEPT !.ru = PatchActive(r.m.ru, user_id, TRUE)],
                  ret |-> PyTrue, exc |-> FALSE]
            ELSE [m |-> r.m, ret |-> PyFalse, exc |-> FALSE]
        Found(found) ==
            LET endpoint == IF found.ret.u.is_agent THEN "agents" ELSE "requesters"
            IN  IF found.ret.t = "none" THEN [m |-> found.m, ret |-> PyFalse, exc |-> FALSE]
                ELSE Reactivated(ApiPut(found.m, Endpoint(endpoint, user_id, "reactivate"),
                                        EmptyDict, WorkspaceId, f3))
    IN  IF mdry THEN [m |-> m, ret |-> PyTrue, exc |-> FALSE]
        ELSE Found(GetUserById(m, user_id, f1, f2))

\* UserManager.activate_user
ActivateUser(m, mdry, user_id, f1, f2, f3) ==
    Handle(ActivateUserBody(m, mdry, user_id, f1, f2, f3), PyFalse)

(***************************************************************************)
(* The lookups by email and by name.  A list of users is a sequence of     *)
(* PyUser values.                                                          *)
(***************************************************************************)
\* the list endpoints GET requesters and GET agents
Collection(res) == Endpoint(res, 0, "")

\* response.get(key, []) for a key that holds a list
ListOf(d, key) == IF key \in DOMAIN d.d /\ d.d[key].t = "list" THEN d.d[key].l ELSE <<>>

\* {user.get("id") for user in users}
IdsOf(users) == {users[k].u.id : k \in 1..Len(users)}

\* "for user in users: self._add_to_recent_users(user)"
RECURSIVE AddAllToRecentUsers(_, _)
AddAllToRecentUsers(ru, users) ==
    IF users = <<>> THEN ru
    ELSE AddAllToRecentUsers(AddToRecentUsers(ru, Head(users).u), Tail(users))

\* One try-block of get_user_by_email: GET requesters?email=..., take the
\* first match and cache it.
EmailLookup(m, params, fault) ==
    LET Got(r) ==
            LET users == ListOf(r.ret, "requesters")
            IN  IF r.exc.raised \/ r.ret.t # "dict"
                THEN [m |-> r.m, ret |-> PyNone, exc |-> TRUE]
                ELSE IF Len(users) > 0
                THEN [m |-> [r.m EXCEPT !.ru = AddToRecentUsers(r.m.ru, users[1].u)],
                      ret |-> users[1], exc |-> FALSE]
                ELSE [m |-> r.m, ret |-> PyNone, exc |-> FALSE]
    IN  Got(ApiGetParams(m, Collection("requesters"), params, WorkspaceId, fault))

IncludeAgents == "include_agents" :> PyStr(<<"t", "r", "u", "e">>)

\* The body of get_user_by_email's outer try block.  re.match raises
\* TypeError for an email that is not a str.
GetUserByEmailBody(m, email, f1, f2) ==
    LET Swallow(b) == [b EXCEPT !.exc = FALSE]
        First(a) == IF a.ret.t # "none" THEN Swallow(a)
                    ELSE Swallow(EmailLookup(a.m, ("email" :> email) @@ IncludeAgents, f2))
    IN  IF email.t # "str" THEN [m |-> m, ret |-> PyNone, exc |-> TRUE]
        ELSE IF ~IsValidEmail(email.s) THEN [m |-> m, ret |-> PyNone, exc |-> FALSE]
        ELSE First(EmailLookup(m, "email" :> email, f1))

\* UserManager.get_user_by_email
GetUserByEmail(m, email, f1, f2) ==
    Handle(GetUserByEmailBody(m, email, f1, f2), PyNone)

\* lines 180-196: the structured query built from the names
NameQuery(first_name, last_name) ==
    IF Truthy(first_name) /\ Truthy(last_name)
    THEN [t |-> "query", field |-> "name", term |-> first_name.s \o <<" ">> \o last_name.s]
    ELSE IF Truthy(first_name)
    THEN [t |-> "query", field |-> "first_name", term |-> first_name.s]
    ELSE [t |-> "query", field |-> "last_name", term |-> last_name.s]

\* the client-side filter of the fallbacks (lines 233-241, 292-300)
NameMatch(u, first_name, last_name) ==
    /\ ~Truthy(first_name)
          \/ StrIn(StrLower(first_name.s), NameLower(UserGet(u, "first_name")))
    /\ ~Truthy(last_name)
          \/ StrIn(StrLower(last_name.s), NameLower(UserGet(u, "last_name")))

\* '"400" in str(e)': the message of an HTTP error starts with its status code
Has400(exc) == exc.raised /\ exc.status = 400

\* the requester block of search_users_by_name (lines 197-252): [m, all],
\* all the users found
RequesterSearch(m, first_name, last_name, f1, f2) ==
    LET Fallback(r) ==
            LET filtered == SelectSeq(ListOf(r.ret, "requesters"),
                                      LAMBDA u : NameMatch(u.u, first_name, last_name))
            IN  IF r.exc.raised \/ r.ret.t # "dict" THEN [m |-> r.m, all |-> <<>>]
                ELSE [m |-> [r.m EXCEPT !.ru = AddAllToRecentUsers(r.m.ru, filtered)],
                      all |-> filtered]
        Queried(r) ==
            LET found == ListOf(r.ret, "requesters")
            IN  IF Has400(r.exc)
                THEN Fallback(ApiGet(r.m, Collection("requesters"), WorkspaceId, f2))
                ELSE IF r.exc.raised \/ r.ret.t # "dict" THEN [m |-> r.m, all |-> <<>>]
                ELSE [m |-> [r.m EXCEPT !.ru = AddAllToRecentUsers(r.m.ru, found)],
                      all |-> found]
    IN  Queried(ApiGetParams(m, Collection("requesters"),
                             "query" :> NameQuery(first_name, last_name), WorkspaceId, f1))

\* requester_ids is a local of search_users_by_name assigned at line 264,
\* after the agent query returned; before that the name is unbound.
Unbound == [bound |-> FALSE, ids |-> {}]

\* the agent block of search_users_by_name (lines 254-315): [m, all]
AgentSearch(m, all_users, first_name, last_name, f3, f4) ==
    LET Fallback(r, requester_ids) ==
            LET all_agents == ListOf(r.ret, "agents")
                reads == \E k \in 1..Len(all_agents) :
                            NameMatch(all_agents[k].u, first_name, last_name)
                filtered == SelectSeq(all_agents,
                                      LAMBDA u : /\ NameMatch(u.u, first_name, last_name)
                                                 /\ u.u.id \notin requester_ids.ids)
            IN  IF r.exc.raised \/ r.ret.t # "dict" THEN [m |-> r.m, all |-> all_users]
                ELSE IF reads /\ ~requester_ids.bound THEN [m |-> r.m, all |-> all_users]
                ELSE [m |-> [r.m EXCEPT !.ru = AddAllToRecentUsers(r.m.ru, filtered)],
                      all |-> all_users \o filtered]
        Queried(r) ==
            LET requester_ids == IdsOf(all_users)
                found == SelectSeq(ListOf(r.ret, "requesters"),
                                   LAMBDA u : u.u.id \notin requester_ids /\ u.u.is_agent)
            IN  IF Has400(r.exc)
                THEN Fallback(ApiGet(r.m, Collection("agents"), WorkspaceId, f4), Unbound)
                ELSE IF r.exc.raised \/ r.ret.t # "dict" THEN [m |-> r.m, all |-> all_users]
                ELSE [m |-> [r.m EXCEPT !.ru = AddAllToRecentUsers(r.m.ru, found)],
                      all |-> all_users \o found]
    IN  Queried(ApiGetParams(m, Collection("requesters"),
                             ("query" :> NameQuery(first_name, last_name)) @@ IncludeAgents,
                             WorkspaceId, f3))

\* the match score of _fuzzy_name_search (lines 393-412)
MatchScore(u, search_first_name, search_last_name) ==
    LET user_first == NameLower(UserGet(u, "first_name"))
        user_last == NameLower(UserGet(u, "last_name"))
    IN  (IF search_first_name # <<>> /\ StrIn(search_first_name, user_first)
         THEN IF user_first = search_first_name THEN 2 ELSE 1 ELSE 0)
      + (IF search_last_name # <<>> /\ StrIn(search_last_name, user_last)
         THEN IF user_last = search_last_name THEN 2 ELSE 1 ELSE 0)

\* UserManager._fuzzy_name_search: [m, ret, exc]
FuzzyNameSearch(m, first_name, last_name, g1, g2) ==
    LET search_first_name == IF Truthy(first_name) THEN StrLower(first_name.s) ELSE <<>>
        search_last_name == IF Truthy(last_name) THEN StrLower(last_name.s) ELSE <<>>
        Matched(mm, matches) ==
            [m |-> [mm EXCEPT !.ru = AddAllToRecentUsers(mm.ru, matches)],
             ret |-> PyList(matches), exc |-> FALSE]
        Pooled(mm, all_users) ==
            Matched(mm, SelectSeq(all_users,
                                  LAMBDA u : MatchScore(u.u, search_first_name,
                                                        search_last_name) > 0))
        Agents(r, all_users) ==
            IF r.exc.raised \/ r.ret.t # "dict" THEN Pooled(r.m, all_users)
            ELSE Pooled(r.m, all_users
                               \o SelectSeq(ListOf(r.ret, "agents"),
                                            LAMBDA u : u.u.id \notin IdsOf(all_users)))
        Requesters(r) ==
            Agents(ApiGet(r.m, Collection("agents"), WorkspaceId, g2),
                   IF r.exc.raised \/ r.ret.t # "dict" THEN <<>>
                   ELSE ListOf(r.ret, "requesters"))
    IN  IF first_name.t = "none" /\ last_name.t = "none"
        THEN [m |-> m, ret |-> PyList(<<>>), exc |-> FALSE]
        ELSE Requesters(ApiGet(m, Collection("requesters"), WorkspaceId, g1))

\* UserManager.search_users_by_name: [m, ret, exc], ret a PyList of users
SearchUsersByName(m, first_name, last_name, fuzzy_match, f1, f2, f3, f4, g1, g2) ==
    LET Searched(a) ==
            IF a.all = <<>> /\ fuzzy_match
            THEN FuzzyNameSearch(a.m, first_name, last_name, g1, g2)
            ELSE [m |-> a.m, ret |-> PyList(a.all), exc |-> FALSE]
        Requesters(rq) ==
            Searched(AgentSearch(rq.m, rq.all, first_name, last_name, f3, f4))
    IN  IF ~Truthy(first_name) /\ ~Truthy(last_name)
        THEN [m |-> m, ret |-> PyList(<<>>), exc |-> FALSE]
        ELSE Requesters(RequesterSearch(m, first_name, last_name, f1, f2))

(***************************************************************************)
(* The state machine.                                                      *)
(***************************************************************************)
\* department ids are numeric: integers or their decimal strings
UpdateInputs ==
    { ("first_name" :> PyStr(<<"A">>)) @@ ("department_ids" :> PyInt(7)),
      ("department_ids" :> PyStr(<<"5">>)),
      ("department_ids" :> PyList(<<PyStr(<<"1", "2">>), PyInt(7)>>)) }

NoOp == [op |-> "init", id |-> 0, data |-> EmptyDict, again |-> FALSE]

\* After construction (main builds the gateway and the manager from the one
\* DRY_RUN setting): empty rate window and cache.  The remote service holds
\* a requester (id 1), a deactivated agent (id 2) and nothing under the other ids.
Init ==
    /\ dry_run \in BOOLEAN
    /\ mgr_dry_run = dry_run
    /\ request_timestamps = <<>>
    /\ now = 0
    /\ recent_users = <<>>
    /\ requesters = [i \in Ids |-> IF i = 1 THEN User(1, "requesters", FALSE) ELSE NoUser]
    /\ \E flag \in BOOLEAN :
         agents = [i \in Ids |-> IF i = 2
                                  THEN [User(2, "agents", flag) EXCEPT !.active = FALSE]
                                  ELSE NoUser]
    /\ tickets = <<>>
    /\ lastOp = NoOp
    /\ calls = <<>>
    /\ result = PyNone
    /\ raised = FALSE

Machine ==
    [dry |-> dry_run, ts |-> request_timestamps, now |-> now, ru |-> recent_users,
     st |-> [rq |-> requesters, ag |-> agents, tk |-> tickets], calls |-> <<>>]

\* an operation of the manager ran to its end with outcome r
Commit(op, r) ==
    LET Done(o) ==
            /\ lastOp' = op
            /\ request_timestamps' = o.m.ts
            /\ now' = o.m.now
            /\ recent_users' = o.m.ru
            /\ requesters' = o.m.st.rq
            /\ agents' = o.m.st.ag
            /\ calls' = o.m.calls
            /\ result' = o.ret
            /\ raised' = o.exc
            /\ UNCHANGED <<dry_run, mgr_dry_run, tickets>>
    IN  Done(r)

Ready == Len(request_timestamps) <= MaxStamps

\* a search or a report starts with an empty rate window
Idle == request_timestamps = <<>>

\* the faults worth choosing: none for the calls a dry-run manager never makes
LookupFaults == IF mgr_dry_run THEN {"none"} ELSE GetFaults
CallFaults == IF mgr_dry_run THEN {"none"} ELSE Faults

ById ==
    /\ Ready
    /\ \E id \in Ids, f1, f2 \in GetFaults :
         Commit([op |-> "byId", id |-> id, data |-> EmptyDict,
                 again |-> lastOp.op = "byId" /\ lastOp.id = id],
                GetUserById(Machine, id, f1, f2))

Update ==
    /\ Ready
    /\ \E id \in Ids, d \in UpdateInputs, f1 \in GetFaults, f2 \in Faults,
          f3 \in IF mgr_dry_run THEN GetFaults ELSE {"none"} :
         Commit([op |-> "update", id |-> id, data |-> d, again |-> FALSE],
                UpdateUser(Machine, mgr_dry_run, id, d, f1, f2, f3))

Deactivate ==
    /\ Ready
    /\ \E id \in Ids, f1, f2 \in LookupFaults, f3 \in CallFaults :
         Commit([op |-> "deactivate", id |-> id, data |-> EmptyDict, again |-> FALSE],
                DeactivateUser(Machine, mgr_dry_run, id, f1, f2, f3))

Activate ==
    /\ Ready
    /\ \E id \in Ids, f1, f2 \in LookupFaults, f3 \in CallFaults :
         Commit([op |-> "activate", id |-> id, data |-> EmptyDict, again |-> FALSE],
                ActivateUser(Machine, mgr_dry_run, id, f1, f2, f3))

Forget ==
    /\ Ready
    /\ \E id \in Ids, f1, f2 \in LookupFaults, f3 \in CallFaults :
         Commit([op |-> "forget", id |-> id, data |-> EmptyDict, again |-> FALSE],
                ForgetUser(Machine, mgr_dry_run, id, f1, f2, f3))

Methods == {"GET", "POST", "PUT", "DELETE"}

Responses ==
    { HttpResp(200, JsonBody(PyDict([tickets |-> PyList(<<>>)]))),
      HttpResp(204, EmptyBody), HttpResp(404, TextBody), HttpResp(429, TextBody),
      HttpRespRetry(429, TextBody, PyStr(<<"3", "0">>)),
      HttpResp(400, JsonBody(PyDict([errors |-> PyList(<<>>)]))),
      HttpResp(500, TextBody), NetError }

\* a caller of FreshServiceAPI._make_request outside the user manager
RequestOf(method, res, workspace_id, expect_no_content, diagnostic, resp, over) ==
    LET Returned(r) ==
            /\ lastOp' = [op |-> "request", id |-> 0, data |-> EmptyDict, again |-> FALSE]
            /\ request_timestamps' = r.ts
            /\ now' = r.now
            /\ calls' = <<r.call>>
            /\ result' = r.ret
            /\ raised' = r.exc.raised
            /\ UNCHANGED <<dry_run, mgr_dry_run, recent_users, requesters, agents, tickets>>
    IN  Returned(MakeRequest([ts |-> request_timestamps, now |-> now], dry_run, method,
                             Endpoint(res, 0, ""), EmptyDict, workspace_id,
                             expect_no_content, diagnostic, resp, over))

Request ==
    /\ Ready
    /\ \E method \in Methods, res \in {"tickets", "audit_logs", "requesters"},
          ws \in {NoWorkspace, WorkspaceId}, enc, diag \in BOOLEAN, resp \in Responses :
         RequestOf(method, res, ws, enc, diag, resp, 0)

Next == ById \/ Update \/ Deactivate \/ Activate \/ Forget

Spec == Init /\ [][Next]_vars

\* the gateway alone, called directly
NextGateway == Request

SpecGateway == Init /\ [][NextGateway]_vars

\* the rate limiter alone: requests to one resource, and the passing of time
RateRequest ==
    /\ now <= MaxTime
    /\ \E method \in {"GET", "PUT"}, over \in {0, MaxOversleep} :
         RequestOf(method, "tickets", WorkspaceId, FALSE, FALSE,
                   HttpResp(200, JsonBody(PyDict(EmptyDict))), over)

Tick ==
    /\ now + TickStep <= MaxTime
    /\ now' = now + TickStep
    /\ UNCHANGED <<dry_run, mgr_dry_run, request_timestamps, recent_users,
                   requesters, agents, tickets, lastOp, calls, result, raised>>

NextRate == RateRequest \/ Tick

SpecRate == Init /\ [][NextRate]_vars

(***************************************************************************)
(* The lookups: by id, by email and by name, against a service that holds  *)
(* named users.                                                            *)
(***************************************************************************)
Name(s) == PyStr(s)

\* The service holds requester 1 (Al Bo), agent 2 (al Cy) and requester 3
\* (no first name, Bo).
InitLookup ==
    /\ dry_run \in BOOLEAN
    /\ mgr_dry_run = dry_run
    /\ request_timestamps = <<>>
    /\ now = 0
    /\ recent_users = <<>>
    /\ requesters =
         [i \in Ids |->
            CASE i = 1 -> Person(1, "requesters", FALSE, Name(<<"A", "l">>), Name(<<"B", "o">>),
                                 PyStr(<<"a", "@", "b", ".", "c", "o">>))
              [] i = 3 -> Person(3, "requesters", FALSE, PyNone, Name(<<"B", "o">>),
                                 PyStr(<<"c", "@", "b", ".", "c", "o">>))
              [] OTHER -> NoUser]
    /\ \E flag \in BOOLEAN :
         agents =
           [i \in Ids |->
              IF i = 2
              THEN Person(2, "agents", flag, Name(<<"a", "l">>), Name(<<"C", "y">>),
                          PyStr(<<"x", "@", "b", ".", "c", "o">>))
              ELSE NoUser]
    /\ tickets = <<>>
    /\ lastOp = NoOp
    /\ calls = <<>>
    /\ result = PyNone
    /\ raised = FALSE

Emails ==
    { PyStr(<<"a", "@", "b", ".", "c", "o">>),       \* a requester's
      PyStr(<<"x", "@", "b", ".", "c", "o">>),       \* an agent's
      PyStr(<<"b", "a", "d">>),
      PyStr(<<"a", "@", "b">>),
      PyStr(<<"a", "@", "b", ".", "c">>),
      PyStr(<<"@", "b", ".", "c", "o">>),
      PyStr(<<"x", "@", "b", ".", "c", "o", "\n">>),
      PyNone }

FirstNames == {PyNone, PyStr(<<>>), PyStr(<<"A", "L">>), PyStr(<<"z">>)}
LastNames == {PyNone, PyStr(<<>>), PyStr(<<"b", "o">>)}

\* how the service may treat a structured query, and a plain GET
QueryFaults == {"none", "http400", "http500", "list"}
PlainFaults == {"none", "http500"}
\* a fallback is made only after a 400
FallbackFaults(f) == IF f = "http400" THEN PlainFaults ELSE {"none"}

ByEmail ==
    /\ Ready
    /\ \E email \in Emails, f1, f2 \in PlainFaults :
         Commit([op |-> "byEmail", id |-> 0, data |-> email, again |-> FALSE],
                GetUserByEmail(Machine, email, f1, f2))

ByName ==
    /\ Idle
    /\ \E first_name \in FirstNames, last_name \in LastNames, fuzzy_match \in BOOLEAN,
          f1, f3 \in QueryFaults :
       \E f2 \in FallbackFaults(f1), f4 \in FallbackFaults(f3),
          g1, g2 \in IF fuzzy_match THEN PlainFaults ELSE {"none"} :
         Commit([op |-> "byName", id |-> 0,
                 data |-> [first_name |-> first_name, last_name |-> last_name,
                           fuzzy_match |-> fuzzy_match],
                 again |-> FALSE],
                SearchUsersByName(Machine, first_name, last_name, fuzzy_match,
                                  f1, f2, f3, f4, g1, g2))

NextLookup == ById \/ ByEmail \/ ByName

SpecLookup == InitLookup /\ [][NextLookup]_vars

(***************************************************************************)
(* The cache under long runs: more users than the cache holds, every       *)
(* operation of the manager, the service answering every call.             *)
(***************************************************************************)
\* The service holds requesters 1..MaxCacheId, all with the last name Bo,
\* and the agent 2.
InitCache ==
    /\ dry_run \in BOOLEAN
    /\ mgr_dry_run = dry_run
    /\ request_timestamps = <<>>
    /\ now = 0
    /\ recent_users = <<>>
    /\ requesters =
         [i \in 1..MaxCacheId |->
            IF i = 2 THEN NoUser
            ELSE Person(i, "requesters", FALSE,
                        IF i <= MaxRepeat THEN Name(<<"A", "l">>) ELSE Name(<<"C", "y">>),
                        Name(<<"B", "o">>), PyNone)]
    /\ agents =
         [i \in 1..MaxCacheId |->
            IF i = 2
            THEN Person(2, "agents", TRUE, Name(<<"a", "l">>), Name(<<"B", "o">>), PyNone)
            ELSE NoUser]
    /\ tickets = <<>>
    /\ lastOp = NoOp
    /\ calls = <<>>
    /\ result = PyNone
    /\ raised = FALSE

CacheReady == Len(request_timestamps) <= MaxCacheCalls

\* the greatest id the cache holds, 0 for the empty cache
MaxCachedId ==
    IF recent_users = <<>> THEN 0
    ELSE CHOOSE i \in IdsOf([k \in 1..Len(recent_users) |-> PyUser(recent_users[k])]) :
            \A k \in 1..Len(recent_users) : recent_users[k].id <= i

\* the ids an operation is called with: the next id not yet resolved, and
\* the ids that are resolved again
CacheIds == ({MaxCachedId + 1} \cap (1..MaxCacheId)) \cup (1..MaxRepeat)

CacheById ==
    /\ CacheReady
    /\ \E id \in CacheIds :
         Commit([op |-> "byId", id |-> id, data |-> EmptyDict,
                 again |-> lastOp.op = "byId" /\ lastOp.id = id],
                GetUserById(Machine, id, "none", "none"))

CacheByName ==
    /\ CacheReady
    /\ \E first_name \in {PyNone, PyStr(<<"A", "L">>)},
          last_name \in {PyNone, PyStr(<<"b", "o">>)} :
         Commit([op |-> "byName", id |-> 0,
                 data |-> [first_name |-> first_name, last_name |-> last_name,
                           fuzzy_match |-> TRUE],
                 again |-> FALSE],
                SearchUsersByName(Machine, first_name, last_name, TRUE,
                                  "none", "none", "none", "none", "none", "none"))

CacheMutate ==
    /\ CacheReady
    /\ \E id \in 1..MaxRepeat :
         \/ Commit([op |-> "update", id |-> id,
                    data |-> ("department_ids" :> PyStr(<<"5">>)), again |-> FALSE],
                   UpdateUser(Machine, mgr_dry_run, id, ("department_ids" :> PyStr(<<"5">>)),
                              "none", "none", "none"))
         \/ Commit([op |-> "deactivate", id |-> id, data |-> EmptyDict, again |-> FALSE],
                   DeactivateUser(Machine, mgr_dry_run, id, "none", "none", "none"))
         \/ Commit([op |-> "activate", id |-> id, data |-> EmptyDict, again |-> FALSE],
                   ActivateUser(Machine, mgr_dry_run, id, "none", "none", "none"))
         \/ Commit([op |-> "forget", id |-> id, data |-> EmptyDict, again |-> FALSE],
                   ForgetUser(Machine, mgr_dry_run, id, "none", "none", "none"))

NextCache == CacheById \/ CacheByName \/ CacheMutate

SpecCache == InitCache /\ [][NextCache]_vars

(***************************************************************************)
(* ReportsManager (utils/reports.py).  Its operations only read; the calls *)
(* of one operation are answered under a fault plan: plan[k] is what the   *)
(* environment does to the k-th call, "none" past the end of the plan.     *)
(***************************************************************************)
NextFault(m, plan) == IF Len(m.calls) < Len(plan) THEN plan[Len(m.calls) + 1] ELSE "none"

\* str(v) of the values an id field holds
StrOf(v) ==
    CASE v.t = "int" -> IntStr(v.i)
      [] v.t = "str" -> v.s
      [] OTHER -> <<"N", "o", "n", "e">>

Min(a, b) == IF a <= b THEN a ELSE b

\* start_date_str: the day `days` before today, as the listings are given it
StartDate(days) == PyStr(<<"d">> \o IntStr(days))

\* the parameters every ticket listing sends (lines 521-530)
TicketParams(start_date, limit) ==
    ("per_page" :> PyInt(Min(limit, 100)))
      @@ (IF Truthy(start_date) THEN "updated_since" :> start_date ELSE EmptyDict)
      @@ (IF WorkspaceId # NoWorkspace THEN "workspace_id" :> PyInt(WorkspaceId) ELSE EmptyDict)

\* self.api_client._make_request('GET', 'tickets', params=params, workspace_id=None)
ListTickets(m, params, plan) ==
    Api(m, "GET", Collection("tickets"), params, NoWorkspace, FALSE, NextFault(m, plan))

\* "not isinstance(result, dict) or 'tickets' not in result"
NoTicketList(r) == r.ret.t # "dict" \/ "tickets" \notin DOMAIN r.ret.d

\* an element of a listing that has no .get raises AttributeError
HasGet(v) == v.t \in {"ticket", "dict", "user"}

\* "responder_id and str(responder_id) == str(agent_id)"
IsResponder(k, agent_id) ==
    Truthy(k.responder_id) /\ StrOf(k.responder_id) = StrOf(PyInt(agent_id))

\* ReportsManager.get_ticket_conversations: [m, ret, log], ret the
\* conversations; the except clause turns every failure into the empty list.
\* log: the entry self.logger.error writes at line 121 ("conversations") or
\* at line 117 ("format")
GetTicketConversations(m, ticket_id, plan) ==
    LET Got(r) ==
            [m |-> r.m,
             ret |-> IF ~r.exc.raised /\ r.ret.t = "dict" /\ "ticket" \in DOMAIN r.ret.d
                        /\ r.ret.d["ticket"].t = "ticket"
                     THEN r.ret.d["ticket"].k.conversations ELSE <<>>,
             log |-> IF r.exc.raised THEN <<"conversations">>
                     ELSE IF r.ret.t = "dict" /\ "ticket" \in DOMAIN r.ret.d THEN <<>>
                     ELSE <<"format">>]
    IN  Got(Api(m, "GET", Endpoint("tickets", ticket_id, ""),
                "include" :> PyStr(<<"c", "o", "n", "v">>), NoWorkspace, FALSE,
                NextFault(m, plan)))

\* the local filter of approaches 1 and 2: [m, ret, exc]
AssignedOf(r, agent_id) ==
    LET tickets_ == ListOf(r.ret, "tickets")
    IN  IF r.exc.raised THEN [m |-> r.m, ret |-> <<>>, exc |-> TRUE]
        ELSE IF NoTicketList(r) THEN [m |-> r.m, ret |-> <<>>, exc |-> FALSE]
        ELSE IF \E i \in 1..Len(tickets_) : ~HasGet(tickets_[i])
        THEN [m |-> r.m, ret |-> <<>>, exc |-> TRUE]
        ELSE [m |-> r.m, exc |-> FALSE,
              ret |-> SelectSeq(tickets_, LAMBDA v : IsResponder(v.k, agent_id))]

\* ReportsManager._get_agent_tickets_by_responder_id
GetAgentTicketsByResponderId(m, agent_id, start_date, limit, plan) ==
    AssignedOf(ListTickets(m, TicketParams(start_date, limit), plan), agent_id)

\* ReportsManager._get_agent_tickets_by_filter
GetAgentTicketsByFilter(m, agent_id, start_date, limit, plan) ==
    AssignedOf(ListTickets(m, ("filter" :> PyStr(<<"w">>)) @@ TicketParams(start_date, limit),
                           plan), agent_id)

\* lines 633-634: nothing found, no conversation error counted, nothing logged
NoneScanned == [found |-> <<>>, conversation_errors |-> 0, log |-> <<>>]

\* any(conv.get("user_id") == agent_id for conv in conversations): raises at
\* the first conv without .get unless a conv before it matched
AnyBy(conversations, agent_id) ==
    LET Has(i) == "user_id" \in DOMAIN conversations[i]
        Hit(i) == Has(i) /\ conversations[i].user_id = agent_id
        First(P(_)) == IF \E i \in 1..Len(conversations) : P(i)
                       THEN CHOOSE i \in 1..Len(conversations) :
                              P(i) /\ \A j \in 1..(i - 1) : ~P(j)
                       ELSE Len(conversations) + 1
        Bad(i) == ~Has(i)
    IN  [raised |-> First(Bad) < First(Hit), any |-> First(Hit) < First(Bad)]

\* lines 648-653: the except clause of the check of one ticket
ConversationError(acc, max_conversation_errors) ==
    LET Counted(n) ==
            [acc EXCEPT !.conversation_errors = n,
                        !.log = IF n <= max_conversation_errors THEN Append(@, "checking")
                                ELSE IF n = max_conversation_errors + 1
                                THEN Append(@, "suppressed") ELSE @]
    IN  Counted(acc.conversation_errors + 1)

\* the loop of lines 636-653 over the listed tickets; acc: the tickets found
\* so far, conversation_errors, and the entries logged
RECURSIVE ScanTickets(_, _, _, _, _)
ScanTickets(m, ks, agent_id, plan, acc) ==
    LET max_conversation_errors == 3
        Logged(c) == [acc EXCEPT !.log = @ \o c.log]
        Decided(c, a, by) ==
            ScanTickets(c.m, Tail(ks), agent_id, plan,
                        IF by.raised THEN ConversationError(a, max_conversation_errors)
                        ELSE IF by.any THEN [a EXCEPT !.found = Append(@, Head(ks))]
                        ELSE a)
        Checked(c) == Decided(c, Logged(c), AnyBy(c.ret, agent_id))
    IN  IF ks = <<>> THEN [m |-> m, ret |-> acc.found, exc |-> FALSE, log |-> acc.log]
        ELSE IF IsResponder(Head(ks).k, agent_id)
        THEN ScanTickets(m, Tail(ks), agent_id, plan, [acc EXCEPT !.found = Append(@, Head(ks))])
        ELSE Checked(GetTicketConversations(m, Head(ks).k.id, plan))

\* ReportsManager._get_agent_tickets_by_scanning; its own except clause
\* returns the empty list
GetAgentTicketsByScanning(m, agent_id, start_date, limit, plan) ==
    LET Listed(r) ==
            IF r.exc.raised \/ NoTicketList(r)
            THEN [m |-> r.m, ret |-> <<>>, exc |-> FALSE, log |-> <<>>]
            ELSE IF \E i \in 1..Len(ListOf(r.ret, "tickets")) : ~HasGet(ListOf(r.ret, "tickets")[i])
            THEN [m |-> r.m, ret |-> <<>>, exc |-> FALSE, log |-> <<>>]
            ELSE ScanTickets(r.m, ListOf(r.ret, "tickets"), agent_id, plan, NoneScanned)
    IN  Listed(ListTickets(m, ("order_by" :> PyStr(<<"u">>)) @@ ("order_type" :> PyStr(<<"d">>))
                                @@ TicketParams(start_date, limit), plan))

\* approaches[approach_index]
Approach(approach_index, m, agent_id, start_date, limit, plan) ==
    CASE approach_index = 1 -> GetAgentTicketsByResponderId(m, agent_id, start_date, limit, plan)
      [] approach_index = 2 -> GetAgentTicketsByFilter(m, agent_id, start_date, limit, plan)
      [] OTHER -> GetAgentTicketsByScanning(m, agent_id, start_date, limit, plan)

\* the cascade running every approach
RECURSIVE CascadeNoBreak(_, _, _, _, _, _, _)
CascadeNoBreak(approach_index, m, all_agent_tickets, agent_id, start_date, limit, plan) ==
    LET Tried(a) ==
            CascadeNoBreak(approach_index + 1, a.m,
                           IF a.exc THEN all_agent_tickets ELSE all_agent_tickets \o a.ret,
                           agent_id, start_date, limit, plan)
    IN  IF approach_index > 3
        THEN [m |-> m, ret |-> all_agent_tickets, exc |-> FALSE]
        ELSE Tried(Approach(approach_index, m, agent_id, start_date, limit, plan))

\* the cascade given up at the first approach that raises
RECURSIVE CascadeAbort(_, _, _, _, _, _, _)
CascadeAbort(approach_index, m, all_agent_tickets, agent_id, start_date, limit, plan) ==
    LET Tried(a) ==
            IF a.exc THEN [m |-> a.m, ret |-> all_agent_tickets, exc |-> FALSE]
            ELSE CascadeAbort(approach_index + 1, a.m, all_agent_tickets \o a.ret,
                              agent_id, start_date, limit, plan)
    IN  IF approach_index > 3 \/ all_agent_tickets # <<>>
        THEN [m |-> m, ret |-> all_agent_tickets, exc |-> FALSE]
        ELSE Tried(Approach(approach_index, m, agent_id, start_date, limit, plan))

\* lines 498-513: the loop over the approaches, from approach_index on
RECURSIVE Cascade(_, _, _, _, _, _, _)
Cascade(approach_index, m, all_agent_tickets, agent_id, start_date, limit, plan) ==
    LET Tried(a) ==
            Cascade(approach_index + 1, a.m,
                    IF a.exc THEN all_agent_tickets ELSE all_agent_tickets \o a.ret,
                    agent_id, start_date, limit, plan)
    IN  IF approach_index > 3 \/ all_agent_tickets # <<>>
        THEN [m |-> m, ret |-> all_agent_tickets, exc |-> FALSE]
        ELSE Tried(Approach(approach_index, m, agent_id, start_date, limit, plan))

\* get_agent_ticket_interactions without the "already found" test of line 499
GetAgentTicketInteractionsNoBreak(m, agent_id, start_date, limit, plan) ==
    CascadeNoBreak(1, m, <<>>, agent_id, start_date, limit, plan)

\* get_agent_ticket_interactions without the try of line 503
GetAgentTicketInteractionsAbort(m, agent_id, start_date, limit, plan) ==
    CascadeAbort(1, m, <<>>, agent_id, start_date, limit, plan)

\* ReportsManager.get_agent_ticket_interactions: [m, ret, exc], ret the tickets
GetAgentTicketInteractions(m, agent_id, start_date, limit, plan) ==
    Cascade(1, m, <<>>, agent_id, start_date, limit, plan)

(***************************************************************************)
(* The activity reports.  An activity item is                              *)
(*   [type, ticket_id, conversation_id, created_at, role]                  *)
(* with conversation_id 0 on a ticket item (the key is absent there) and   *)
(* role "agent" on the items of the agent pass, "" where the key is absent.*)
(***************************************************************************)
TicketItem(k, role) ==
    [type |-> "ticket", ticket_id |-> k.id, conversation_id |-> 0,
     created_at |-> k.created_at, role |-> role]
ConversationItem(ticket_id, conv, role) ==
    [type |-> "conversation", ticket_id |-> ticket_id, conversation_id |-> conv.id,
     created_at |-> conv.created_at, role |-> role]

\* a < b on str, character by character
RECURSIVE StrLess(_, _)
StrLess(a, b) ==
    IF b = <<>> THEN FALSE
    ELSE IF a = <<>> THEN TRUE
    ELSE IF a[1] = b[1] THEN StrLess(Tail(a), Tail(b))
    ELSE DigitVal(a[1]) < DigitVal(b[1])

\* the stable descending order list.sort(reverse=True) leaves
RECURSIVE SortedDesc(_)
SortedDesc(items) ==
    LET x == items[Len(items)]
        Ins(sorted) ==
            LET ahead == {i \in 1..Len(sorted) :
                            ~StrLess(sorted[i].created_at.s, x.created_at.s)}
            IN  SubSeq(sorted, 1, Cardinality(ahead)) \o <<x>>
                  \o SubSeq(sorted, Cardinality(ahead) + 1, Len(sorted))
    IN  IF items = <<>> THEN <<>>
        ELSE Ins(SortedDesc(SubSeq(items, 1, Len(items) - 1)))

\* items.sort(key=lambda x: x.get('created_at', ''), reverse=True): comparing
\* a None key with any other key raises TypeError
SortItems(items) ==
    IF Len(items) >= 2 /\ \E i \in 1..Len(items) : items[i].created_at.t # "str"
    THEN [ok |-> FALSE, l |-> items]
    ELSE IF Len(items) < 2 THEN [ok |-> TRUE, l |-> items]
    ELSE [ok |-> TRUE, l |-> SortedDesc(items)]

\* ReportsManager.get_user_ticket_activity: [m, ret], ret the listed tickets
GetUserTicketActivity(m, user_id, email, start_date, limit, plan) ==
    LET who == IF user_id # 0 THEN "requester_id" :> PyInt(user_id) ELSE "email" :> email
        Got(r) == [m |-> r.m,
                   ret |-> IF r.exc.raised \/ NoTicketList(r) THEN <<>>
                           ELSE ListOf(r.ret, "tickets")]
    IN  IF user_id = 0 /\ ~Truthy(email) THEN [m |-> m, ret |-> <<>>]
        ELSE Got(ListTickets(m, who @@ TicketParams(start_date, limit), plan))

\* lines 150-180: the items of the tickets ks, every conversation included
RECURSIVE RequesterItems(_, _, _, _)
RequesterItems(m, ks, plan, activity_items) ==
    LET Convs(c) ==
            RequesterItems(c.m, Tail(ks), plan,
                Append(activity_items, TicketItem(Head(ks).k, ""))
                  \o [i \in 1..Len(c.ret) |-> ConversationItem(Head(ks).k.id, c.ret[i], "")])
    IN  IF ks = <<>> THEN [m |-> m, ret |-> activity_items]
        ELSE Convs(GetTicketConversations(m, Head(ks).k.id, plan))

CountType(items, type) == Cardinality({i \in 1..Len(items) : items[i].type = type})

\* ReportsManager.get_user_activity_report: [m, items, summary, exc].  A
\* listed ticket without .get and a failing sort raise out of the method.
GetUserActivityReport(m, user_id, email, days, plan) ==
    LET Raising(mm) == [m |-> mm, items |-> <<>>, summary |-> EmptyDict, exc |-> TRUE]
        Sorted(b, n, s) ==
            IF ~s.ok THEN Raising(b.m)
            ELSE [m |-> b.m, items |-> s.l, exc |-> FALSE,
                  summary |-> ("total_tickets" :> n)
                                @@ ("total_conversations" :> CountType(s.l, "conversation"))]
        Built(b, n) == Sorted(b, n, SortItems(b.ret))
        Listed(a) ==
            IF \E i \in 1..Len(a.ret) : ~HasGet(a.ret[i]) THEN Raising(a.m)
            ELSE Built(RequesterItems(a.m, a.ret, plan, <<>>), Len(a.ret))
    IN  Listed(GetUserTicketActivity(m, user_id, email, StartDate(days), 100, plan))

\* ReportsManager.is_agent: [m, ret]
ReportsIsAgent(m, user_id, plan) ==
    LET Got(r) == [m |-> r.m,
                   ret |-> ~r.exc.raised /\ r.ret.t = "dict" /\ "agent" \in DOMAIN r.ret.d]
    IN  Got(Api(m, "GET", Endpoint("agents", user_id, ""), EmptyDict, NoWorkspace, FALSE,
                NextFault(m, plan)))

\* lines 691-727: the items of the tickets ks, the agent's own conversations only
RECURSIVE AgentItems(_, _, _, _, _)
AgentItems(m, ks, agent_id, plan, activity_items) ==
    LET Own(convs) == SelectSeq(convs, LAMBDA conv : conv.user_id = agent_id)
        OwnItems(own) == [i \in 1..Len(own) |-> ConversationItem(Head(ks).k.id, own[i], "agent")]
        Convs(c) ==
            AgentItems(c.m, Tail(ks), agent_id, plan,
                Append(activity_items, TicketItem(Head(ks).k, "agent")) \o OwnItems(Own(c.ret)))
    IN  IF ks = <<>> THEN [m |-> m, ret |-> activity_items]
        ELSE Convs(GetTicketConversations(m, Head(ks).k.id, plan))

\* ReportsManager.get_agent_activity_report: [m, items, summary, exc]
GetAgentActivityReport(m, agent_id, days, plan) ==
    LET Sorted(b, n, s) ==
            IF ~s.ok THEN [m |-> b.m, items |-> <<>>, summary |-> EmptyDict, exc |-> TRUE]
            ELSE [m |-> b.m, items |-> s.l, exc |-> FALSE,
                  summary |-> ("total_tickets" :> n)
                                @@ ("total_responses" :> CountType(s.l, "conversation"))]
        Built(b, n) == Sorted(b, n, SortItems(b.ret))
        Found(a) == Built(AgentItems(a.m, a.ret, agent_id, plan, <<>>), Len(a.ret))
    IN  Found(GetAgentTicketInteractions(m, agent_id, StartDate(days), 100, plan))

\* the merge appending every agent item
MergeItemsNoDedupe(all_items, agent_items, ticket_ids_seen, conversation_ids_seen) ==
    all_items \o agent_items

\* lines 805-819: append the agent items not seen yet
RECURSIVE MergeItems(_, _, _, _)
MergeItems(all_items, agent_items, ticket_ids_seen, conversation_ids_seen) ==
    LET item == Head(agent_items)
    IN  IF agent_items = <<>> THEN all_items
        ELSE IF item.type = "ticket"
        THEN IF item.ticket_id \notin ticket_ids_seen
             THEN MergeItems(Append(all_items, item), Tail(agent_items),
                             ticket_ids_seen \cup {item.ticket_id}, conversation_ids_seen)
             ELSE MergeItems(all_items, Tail(agent_items), ticket_ids_seen,
                             conversation_ids_seen)
        ELSE IF item.conversation_id \notin conversation_ids_seen
        THEN MergeItems(Append(all_items, item), Tail(agent_items), ticket_ids_seen,
                        conversation_ids_seen \cup {item.conversation_id})
        ELSE MergeItems(all_items, Tail(agent_items), ticket_ids_seen, conversation_ids_seen)

\* str(e) of the TypeError the sort raises
SortErrorText == PyStr(<<"'", "<", "'">>)

\* The agent branch of get_comprehensive_user_activity (lines 762-802):
\* [m, is_agent, agent_items, agent_summary, agent_error, attempted, raised],
\* raised being the ghost "get_agent_activity_report raised".
AgentBranchNoInnerTry(m, user_id, days, plan) ==
    LET None(mm, flag, tried, failed) ==
            [m |-> mm, is_agent |-> flag, agent_items |-> <<>>, agent_summary |-> EmptyDict,
             agent_error |-> PyNone, attempted |-> tried, raised |-> failed]
        Reported(a) ==
            IF a.exc THEN None(a.m, TRUE, TRUE, TRUE)
            ELSE [m |-> a.m, is_agent |-> TRUE, agent_items |-> a.items,
                  agent_summary |-> a.summary, agent_error |-> PyNone,
                  attempted |-> TRUE, raised |-> FALSE]
        Probed(p) == IF ~p.ret THEN None(p.m, FALSE, FALSE, FALSE)
                     ELSE Reported(GetAgentActivityReport(p.m, user_id, days, plan))
    IN  IF user_id = 0 THEN None(m, FALSE, FALSE, FALSE)
        ELSE Probed(ReportsIsAgent(m, user_id, plan))

AgentBranch(m, user_id, days, plan) ==
    LET None(mm, flag, tried) ==
            [m |-> mm, is_agent |-> flag, agent_items |-> <<>>, agent_summary |-> EmptyDict,
             agent_error |-> PyNone, attempted |-> tried, raised |-> FALSE]
        Reported(a) ==
            IF a.exc
            THEN [m |-> a.m, is_agent |-> TRUE, agent_items |-> <<>>,
                  agent_summary |-> ("total_tickets" :> 0) @@ ("total_responses" :> 0),
                  agent_error |-> SortErrorText, attempted |-> TRUE, raised |-> TRUE]
            ELSE [m |-> a.m, is_agent |-> TRUE, agent_items |-> a.items,
                  agent_summary |-> a.summary, agent_error |-> PyNone,
                  attempted |-> TRUE, raised |-> FALSE]
        Probed(p) == IF ~p.ret THEN None(p.m, FALSE, FALSE)
                     ELSE Reported(GetAgentActivityReport(p.m, user_id, days, plan))
    IN  IF user_id = 0 THEN None(m, FALSE, FALSE)
        ELSE Probed(ReportsIsAgent(m, user_id, plan))

\* summary.get(key, 0)
Count(summary, key) == IF key \in DOMAIN summary THEN summary[key] ELSE 0

\* lines 826-845: the combined summary, a dict
CombinedSummary(requester_summary, b) ==
    ("total_tickets_created" :> PyInt(Count(requester_summary, "total_tickets")))
      @@ ("total_tickets_worked" :>
            PyInt(IF b.is_agent THEN Count(b.agent_summary, "total_tickets") ELSE 0))
      @@ ("total_conversations_as_requester" :>
            PyInt(Count(requester_summary, "total_conversations")))
      @@ ("total_responses_as_agent" :>
            PyInt(IF b.is_agent THEN Count(b.agent_summary, "total_responses") ELSE 0))
      @@ ("is_agent" :> IF b.is_agent THEN PyTrue ELSE PyFalse)
      @@ ("agent_activity_attempted" :> IF b.attempted THEN PyTrue ELSE PyFalse)
      @@ (IF Truthy(b.agent_error)
          THEN ("agent_error" :> b.agent_error) @@ ("agent_activity_available" :> PyFalse)
          ELSE IF b.is_agent THEN "agent_activity_available" :> PyTrue
          ELSE EmptyDict)

\* what get_comprehensive_user_activity returns, with the two passes' lists
\* and the ghost agent_raised kept beside it; t = "raise" when it raised
Report(t, all_items, combined_summary, is_agent, requester_items, agent_items, agent_raised) ==
    [t |-> t, all_items |-> all_items, combined_summary |-> combined_summary,
     is_agent |-> is_agent, requester_items |-> requester_items,
     agent_items |-> agent_items, agent_raised |-> agent_raised]

\* ReportsManager.get_comprehensive_user_activity: [m, ret, exc]
GetComprehensiveUserActivity(m, user_id, email, days, plan) ==
    LET TypeIds(items, type) ==
            {IF type = "ticket" THEN items[i].ticket_id ELSE items[i].conversation_id :
               i \in {j \in 1..Len(items) : items[j].type = type}}
        Sorted(q, b, s) ==
            IF ~s.ok
            THEN [m |-> b.m, exc |-> TRUE,
                  ret |-> Report("raise", <<>>, EmptyDict, b.is_agent, q.items,
                                 b.agent_items, b.raised)]
            ELSE [m |-> b.m, exc |-> FALSE,
                  ret |-> Report("report", s.l, CombinedSummary(q.summary, b), b.is_agent,
                                 q.items, b.agent_items, b.raised)]
        Branched(q, b) ==
            Sorted(q, b, SortItems(MergeItems(q.items, b.agent_items,
                                              TypeIds(q.items, "ticket"),
                                              TypeIds(q.items, "conversation"))))
        Requested(q) ==
            IF q.exc
            THEN [m |-> q.m, exc |-> TRUE,
                  ret |-> Report("raise", <<>>, EmptyDict, FALSE, <<>>, <<>>, FALSE)]
            ELSE Branched(q, AgentBranch(q.m, user_id, days, plan))
    IN  Requested(GetUserActivityReport(m, user_id, email, days, plan))

(***************************************************************************)
(* The inactivity scan.  A date string is the decimal number of its day;   *)
(* strptime accepts exactly the strings of digits.  Today is the day       *)
(* datetime.now() falls on.                                                *)
(***************************************************************************)
\* a user payload with the date fields the scan reads
Account(id, pool, created_at, last_login_at, updated_at) ==
    [id |-> id, pool |-> pool, is_agent |-> pool = "agents", active |-> TRUE,
     first_name |-> PyStr(<<"Z">>), department_ids |-> PyList(<<>>),
     created_at |-> created_at, last_login_at |-> last_login_at, updated_at |-> updated_at]

\* datetime.strptime(v, "%Y-%m-%dT%H:%M:%SZ"): ok FALSE stands for the
\* ValueError / TypeError it raises
ParseDate(v) ==
    IF v.t = "str" /\ AllDigits(v.s) THEN [ok |-> TRUE, day |-> DigitsToInt(v.s)]
    ELSE [ok |-> FALSE, day |-> 0]

Unknown == PyStr(<<"U", "n", "k", "n", "o", "w", "n">>)

\* a loop that goes on after a short page
LastPageNever(batch, per_page) == FALSE

\* lines 1529 and 1573: if len(batch) < per_page: break
LastPage(batch, per_page) == Len(batch) < per_page

\* ReportsManager._get_all_agents / _get_all_requesters: [m, ret], the loop
\* over the pages from page on
RECURSIVE GetAll(_, _, _, _, _)
GetAll(m, res, page, found, plan) ==
    LET per_page == PerPage
        Paged(r) ==
            IF r.exc.raised \/ r.ret.t # "dict" \/ res \notin DOMAIN r.ret.d
            THEN [m |-> r.m, ret |-> found]
            ELSE IF ~Truthy(r.ret.d[res]) THEN [m |-> r.m, ret |-> found]
            ELSE IF LastPage(ListOf(r.ret, res), per_page)
            THEN [m |-> r.m, ret |-> found \o ListOf(r.ret, res)]
            ELSE GetAll(r.m, res, page + 1, found \o ListOf(r.ret, res), plan)
    IN  Paged(Api(m, "GET", Collection(res),
                  ("page" :> PyInt(page)) @@ ("per_page" :> PyInt(per_page)),
                  NoWorkspace, FALSE, NextFault(m, plan)))

\* ReportsManager._get_user_last_login: [m, ret], ret a date string or PyNone.
\* res is the local variable result: the last response that did not raise.
GetUserLastLogin(m, user_id, plan) ==
    LET Sub(v, key) == IF v.t = "dict" /\ key \in DOMAIN v.d THEN v.d[key] ELSE PyNone
        Get(v, field) == IF v.t = "user" THEN UserGet(v.u, field) ELSE PyNone
        LoginOf(v) == IF Truthy(Get(v, "last_login_at")) THEN Get(v, "last_login_at")
                      ELSE IF Truthy(Get(v, "updated_at")) THEN Get(v, "updated_at")
                      ELSE PyNone
        Fallback(mm, res) ==
            [m |-> mm,
             ret |-> IF Truthy(Get(Sub(res, "requester"), "created_at"))
                     THEN Get(Sub(res, "requester"), "created_at")
                     ELSE IF Truthy(Get(Sub(res, "agent"), "created_at"))
                     THEN Get(Sub(res, "agent"), "created_at")
                     ELSE PyNone]
        Ticketed(res, r3) ==
            IF r3.exc.raised THEN Fallback(r3.m, res)
            ELSE IF Truthy(Sub(r3.ret, "tickets"))
            THEN IF ListOf(r3.ret, "tickets")[1].t = "ticket"
                 THEN [m |-> r3.m, ret |-> ListOf(r3.ret, "tickets")[1].k.created_at]
                 ELSE Fallback(r3.m, r3.ret)
            ELSE Fallback(r3.m, r3.ret)
        Tickets(mm, res) ==
            Ticketed(res, Api(mm, "GET", Collection("tickets"),
                              ("requester_id" :> PyInt(user_id)) @@ ("per_page" :> PyInt(1))
                                @@ ("order_type" :> PyStr(<<"d">>))
                                @@ ("order_by" :> PyStr(<<"c">>)),
                              NoWorkspace, FALSE, NextFault(mm, plan)))
        Agented(res, r2) ==
            IF r2.exc.raised THEN Tickets(r2.m, res)
            ELSE IF Truthy(LoginOf(Sub(r2.ret, "agent")))
            THEN [m |-> r2.m, ret |-> LoginOf(Sub(r2.ret, "agent"))]
            ELSE Tickets(r2.m, r2.ret)
        Requested(r1) ==
            IF r1.exc.raised THEN [m |-> r1.m, ret |-> PyNone]
            ELSE IF Truthy(LoginOf(Sub(r1.ret, "requester")))
            THEN [m |-> r1.m, ret |-> LoginOf(Sub(r1.ret, "requester"))]
            ELSE IF user_id # 0
            THEN Agented(r1.ret, Api(r1.m, "GET", Endpoint("agents", user_id, ""), EmptyDict,
                                     NoWorkspace, FALSE, NextFault(r1.m, plan)))
            ELSE Tickets(r1.m, r1.ret)
    IN  Requested(Api(m, "GET", Endpoint("requesters", user_id, ""), EmptyDict,
                      NoWorkspace, FALSE, NextFault(m, plan)))

\* the scan evaluating every user
RecentlyCreatedNever(user, cutoff_date) == FALSE

\* lines 1229-1237: the user was created after the cutoff date
RecentlyCreated(user, cutoff_date) ==
    /\ Truthy(UserGet(user, "created_at"))
    /\ ParseDate(UserGet(user, "created_at")).ok
    /\ ParseDate(UserGet(user, "created_at")).day > cutoff_date

\* the scan's running state: the list, the two tallies, and the ghost
\* resolved: what the cascade gave for each user it was run for
NoneFound == [inactive_users |-> <<>>, without |-> 0, inactive |-> 0, resolved |-> <<>>]

\* the entry of a user the cascade gave nothing for, left out of the list
NoSignalDropped(acc, entry) == [acc EXCEPT !.without = @ + 1]

\* lines 1242-1256: no last login data, the user counts as inactive
NoSignal(acc, entry) ==
    [acc EXCEPT !.without = @ + 1, !.inactive = @ + 1,
                !.inactive_users = Append(@, entry)]

\* a capability test that tallies its user when it finds no signal
AfterProbeTallied(p) == IF p.ret = PyNone THEN NoSignalDropped(NoneFound, PyNone) ELSE NoneFound

\* lines 1202-1213: the capability test sets using_fallback_methods and
\* nothing else; the list and the counters of lines 1157-1168 are untouched
\* when the agents' loop starts
AfterProbe(p) == NoneFound

\* the threshold test including the threshold itself
IsInactiveAtThreshold(days_inactive, threshold_days) == days_inactive >= threshold_days

\* lines 1264 and 1356: if days_inactive > threshold_days
IsInactive(days_inactive, threshold_days) == days_inactive > threshold_days

\* lines 1226-1278 and 1319-1370: the loop over the users of one pool
RECURSIVE ScanUsers(_, _, _, _, _, _)
ScanUsers(m, users, type, threshold_days, plan, acc) ==
    LET user == Head(users).u
        Entry(last_login, days_inactive) ==
            [id |-> user.id, last_login |-> last_login, days_inactive |-> days_inactive,
             type |-> type, created_at |-> UserGet(user, "created_at")]
        Seen(l) == [acc EXCEPT !.resolved = Append(@, [id |-> user.id, type |-> type,
                                                      last_login |-> l.ret])]
        Classified(l, days_inactive) ==
            ScanUsers(l.m, Tail(users), type, threshold_days, plan,
                IF ~Truthy(l.ret) THEN NoSignal(Seen(l), Entry(PyNone, Unknown))
                ELSE IF ~ParseDate(l.ret).ok THEN [Seen(l) EXCEPT !.without = @ + 1]
                ELSE IF IsInactive(days_inactive, threshold_days)
                THEN [Seen(l) EXCEPT !.inactive = @ + 1,
                                     !.inactive_users =
                                        Append(@, Entry(l.ret, PyInt(days_inactive)))]
                ELSE Seen(l))
        Resolved(l) == Classified(l, Today - ParseDate(l.ret).day)
    IN  IF users = <<>> THEN [m |-> m, acc |-> acc]
        ELSE IF RecentlyCreated(user, Today - threshold_days)
        THEN ScanUsers(m, Tail(users), type, threshold_days, plan, acc)
        ELSE Resolved(GetUserLastLogin(m, user.id, plan))

\* the sort key with "Unknown" as the smallest value
InactiveKeyUnknownLast(entry) == IF entry.days_inactive = Unknown THEN 0 - 999999 ELSE entry.days_inactive.i

\* the sort key of line 1386
InactiveKey(entry) == IF entry.days_inactive = Unknown THEN 999999 ELSE entry.days_inactive.i

\* inactive_users.sort(key=..., reverse=True): stable, largest key first
RECURSIVE SortInactive(_)
SortInactive(entries) ==
    LET x == entries[Len(entries)]
        Ins(sorted) ==
            LET ahead == {i \in 1..Len(sorted) : InactiveKey(sorted[i]) >= InactiveKey(x)}
            IN  SubSeq(sorted, 1, Cardinality(ahead)) \o <<x>>
                  \o SubSeq(sorted, Cardinality(ahead) + 1, Len(sorted))
    IN  IF entries = <<>> THEN <<>>
        ELSE Ins(SortInactive(SubSeq(entries, 1, Len(entries) - 1)))

\* ReportsManager.get_inactive_users_report: [m, ret, exc] with
\*   ret = [t, inactive_users, summary, resolved, probe]
\* probe being the ghost [from, to]: the calls from + 1 .. to are the
\* capability test's.  test_user_id 0 stands for None.
GetInactiveUsersReport(m, threshold_days, include_agents, include_requesters, test_user_id, plan) ==
    LET Done(mm, a, r, probe, acc) ==
            [m |-> mm, exc |-> FALSE,
             ret |-> [t |-> "scan",
                      inactive_users |-> SortInactive(acc.inactive_users),
                      summary |->
                        [total_inactive_users |-> Len(acc.inactive_users),
                         inactive_agents |-> a.inactive,
                         inactive_requesters |-> acc.inactive - a.inactive,
                         total_agents_checked |-> a.total,
                         total_requesters_checked |-> r,
                         users_without_login_data |-> acc.without,
                         threshold_days |-> threshold_days,
                         using_alternative_methods |-> probe.fallback],
                      resolved |-> acc.resolved,
                      probe |-> [from |-> probe.from, to |-> probe.to]]]
        RequestersScanned(a, probe, total, s) == Done(s.m, a, total, probe, s.acc)
        RequestersListed(a, probe, acc, l) ==
            RequestersScanned(a, probe, Len(l.ret),
                              ScanUsers(l.m, l.ret, "Requester", threshold_days, plan, acc))
        Requesters(mm, a, probe, acc) ==
            IF include_requesters
            THEN RequestersListed(a, probe, acc, GetAll(mm, "requesters", 1, <<>>, plan))
            ELSE Done(mm, a, 0, probe, acc)
        AgentsScanned(total, probe, s) ==
            Requesters(s.m, [inactive |-> s.acc.inactive, total |-> total], probe, s.acc)
        Probed(l, p) ==
            AgentsScanned(Len(l.ret),
                          [from |-> Len(l.m.calls), to |-> Len(p.m.calls),
                           fallback |-> p.ret = PyNone],
                          ScanUsers(p.m, l.ret, "Agent", threshold_days, plan,
                                    AfterProbe(p)))
        AgentsListed(l) ==
            IF l.ret # <<>>
            THEN Probed(l, GetUserLastLogin(l.m, IF test_user_id # 0 THEN test_user_id
                                                 ELSE l.ret[1].u.id, plan))
            ELSE AgentsScanned(0, [from |-> 0, to |-> 0, fallback |-> FALSE],
                               [m |-> l.m, acc |-> NoneFound])
    IN  IF include_agents THEN AgentsListed(GetAll(m, "agents", 1, <<>>, plan))
        ELSE Requesters(m, [inactive |-> 0, total |-> 0],
                        [from |-> 0, to |-> 0, fallback |-> FALSE], NoneFound)

(***************************************************************************)
(* The reports against a service that holds three tickets.  User 2 is an   *)
(* agent who raised ticket 1, is assigned tickets 1 and 3 and wrote in     *)
(* tickets 1 and 2; user 3 only wrote in ticket 2; user 1 raised tickets 2 *)
(* and 3.  created_at is a one-digit stamp, or None on ticket 3.           *)
(***************************************************************************)
Stamp(n) == PyStr(IntStr(n))

InitReports ==
    /\ dry_run \in BOOLEAN
    /\ mgr_dry_run = dry_run
    /\ request_timestamps = <<>>
    /\ now = 0
    /\ recent_users = <<>>
    /\ requesters =
         [i \in Ids |->
            IF i = 1
            THEN Person(1, "requesters", FALSE, PyStr(<<"A", "l">>), PyStr(<<"B", "o">>),
                        PyStr(<<"a", "@", "b", ".", "c", "o">>))
            ELSE NoUser]
    /\ agents = [i \in Ids |-> IF i = 2 THEN User(2, "agents", TRUE) ELSE NoUser]
    /\ \E watched \in BOOLEAN, created_at \in {Stamp(2), PyNone} :
         tickets = << Ticket(1, 2, PyInt(2), Stamp(3), watched,
                             <<Conversation(1, 2, Stamp(5))>>),
                      Ticket(2, 1, PyNone, Stamp(1), TRUE,
                             <<Conversation(2, 3, Stamp(4)), Conversation(3, 2, Stamp(0))>>),
                      Ticket(3, 1, PyInt(2), created_at, FALSE, <<>>) >>
    /\ lastOp = NoOp
    /\ calls = <<>>
    /\ result = PyNone
    /\ raised = FALSE

Plans(n, faults) == UNION {[1..k -> faults] : k \in 0..n}
TicketFaults == {"none", "http500", "empty", "nondict"}

\* a list of tickets as the value the operation returns
AsList(r) == [m |-> r.m, ret |-> PyList(r.ret), exc |-> r.exc]

Interactions ==
    /\ Idle
    /\ \E agent_id \in Ids, plan \in Plans(MaxPlan, TicketFaults) :
         Commit([op |-> "interactions", id |-> agent_id, data |-> EmptyDict, again |-> FALSE],
                AsList(GetAgentTicketInteractions(Machine, agent_id, StartDate(Days), 100, plan)))

NextInteractions == Interactions

SpecInteractions == InitReports /\ [][NextInteractions]_vars

(***************************************************************************)
(* Approach 3 on its own, over five tickets, with the entries it logs.     *)
(* "badconv" is a ticket whose conversations are no objects.               *)
(***************************************************************************)
InitScanning ==
    /\ dry_run \in BOOLEAN
    /\ mgr_dry_run = dry_run
    /\ request_timestamps = <<>>
    /\ now = 0
    /\ recent_users = <<>>
    /\ requesters = [i \in Ids |-> IF i = 1 THEN User(1, "requesters", FALSE) ELSE NoUser]
    /\ agents = [i \in Ids |-> IF i = 2 THEN User(2, "agents", TRUE) ELSE NoUser]
    /\ \E responder_id \in {PyNone, PyInt(2)}, user_id \in {2, 3} :
         tickets = << Ticket(1, 1, responder_id, Stamp(3), FALSE, <<>>),
                      Ticket(2, 1, PyNone, Stamp(1), FALSE, <<Conversation(1, user_id, Stamp(4))>>),
                      Ticket(3, 1, PyNone, Stamp(2), FALSE, <<>>),
                      Ticket(4, 1, PyNone, Stamp(2), FALSE, <<>>),
                      Ticket(5, 1, PyNone, Stamp(2), FALSE, <<>>) >>
    /\ lastOp = NoOp
    /\ calls = <<>>
    /\ result = PyNone
    /\ raised = FALSE

FetchFaults == {"none", "http500", "badconv"}

Scanning ==
    /\ Idle
    /\ \E agent_id \in {2, 3}, plan \in Plans(MaxFetchPlan, FetchFaults) :
         LET Scanned(r) ==
                 [m |-> r.m, exc |-> r.exc,
                  ret |-> [t |-> "scanned", tickets |-> PyList(r.ret), log |-> r.log]]
         IN  Commit([op |-> "scanning", id |-> agent_id, data |-> EmptyDict, again |-> FALSE],
                    Scanned(GetAgentTicketsByScanning(Machine, agent_id, PyNone, 100, plan)))

NextScanning == Scanning

SpecScanning == InitScanning /\ [][NextScanning]_vars

\* the report is asked for by id, by email, or with neither
Comprehensive ==
    /\ Idle
    /\ \E user_id \in 0..MaxId, plan \in Plans(MaxPlan, TicketFaults) :
         \E email \in IF user_id = 0
                      THEN {PyNone, PyStr(<<"a", "@", "b", ".", "c", "o">>)} ELSE {PyNone} :
            Commit([op |-> "comprehensive", id |-> user_id, data |-> "email" :> email,
                    again |-> FALSE],
                   GetComprehensiveUserActivity(Machine, user_id, email, Days, plan))

NextActivity == Comprehensive

SpecActivity == InitReports /\ [][NextActivity]_vars

(***************************************************************************)
(* The inactivity scan against a service that holds agent 2 and requesters *)
(* 1 and 3.  Today is day 200 and the threshold 90 days, so the cutoff is  *)
(* day 110: a user created on day 150 is recent, one created on day 50 is  *)
(* not.  Requester 1 raised a ticket on day 40; requester 3 has no date of *)
(* activity anywhere.                                                      *)
(***************************************************************************)
InitInactive ==
    /\ dry_run \in BOOLEAN
    /\ mgr_dry_run = dry_run
    /\ request_timestamps = <<>>
    /\ now = 0
    /\ recent_users = <<>>
    /\ \E created_at \in {Stamp(150), Stamp(50)} :
         agents = [i \in Ids |-> IF i = 2
                                  THEN Account(2, "agents", created_at, Stamp(60), PyNone)
                                  ELSE NoUser]
    /\ \E created_at \in {Stamp(150), Stamp(50), PyStr(<<"x">>)},
          last_login_at \in {PyNone, Stamp(60), Stamp(109), Stamp(110), Stamp(190),
                             PyStr(<<"x">>)} :
         requesters =
           [i \in Ids |->
              CASE i = 1 -> Account(1, "requesters", created_at, last_login_at, PyNone)
                [] i = 3 -> Account(3, "requesters", Stamp(50), PyNone, PyNone)
                [] OTHER -> NoUser]
    /\ tickets = << Ticket(1, 1, PyNone, Stamp(40), FALSE, <<>>) >>
    /\ lastOp = NoOp
    /\ calls = <<>>
    /\ result = PyNone
    /\ raised = FALSE

ScanFaults == {"none", "http500", "empty"}
TestUserIds == {0, 1, 2}

Flag(b) == IF b THEN PyTrue ELSE PyFalse

InactiveScan ==
    /\ Idle
    /\ \E include_agents, include_requesters \in BOOLEAN, test_user_id \in TestUserIds,
          plan \in Plans(MaxScanPlan, ScanFaults) :
         Commit([op |-> "inactive", id |-> test_user_id,
                 data |-> ("include_agents" :> Flag(include_agents))
                            @@ ("include_requesters" :> Flag(include_requesters)),
                 again |-> FALSE],
                GetInactiveUsersReport(Machine, ThresholdDays, include_agents,
                                       include_requesters, test_user_id, plan))

NextInactive == InactiveScan

SpecInactive == InitInactive /\ [][NextInactive]_vars

(***************************************************************************)
(* The retrieval of a population on its own.  "full" is the answer of a    *)
(* service with a further page of per_page records.                        *)
(***************************************************************************)
PageFaults == {"none", "http500", "empty", "list", "full"}

Retrieve ==
    /\ Idle
    /\ \E res \in {"agents", "requesters"}, plan \in Plans(MaxPages, PageFaults) :
         LET Retrieved(g) == [m |-> g.m, ret |-> PyList(g.ret), exc |-> FALSE]
         IN  Commit([op |-> "getall", id |-> 0,
                     data |-> ("agents" :> Flag(res = "agents")), again |-> FALSE],
                    Retrieved(GetAll(Machine, res, 1, <<>>, plan)))

NextPages == Retrieve

SpecPages == InitInactive /\ [][NextPages]_vars

(***************************************************************************)
(* The diagnostics.  A probe's result is the dict _test_endpoint builds;   *)
(* the report is [t, endpoints, status, executed], executed being the      *)
(* ghost set of the keys whose probe was sent.                             *)
(***************************************************************************)
\* ReportsManager._test_endpoint: [m, ret]
TestEndpoint(m, endpoint, params, plan) ==
    LET Tested(r) ==
            [m |-> r.m,
             ret |->
               IF r.exc.raised
               THEN [success |-> FALSE, error |-> PyStr(IntStr(r.exc.status)),
                     status_code |-> PyNone, response |-> PyNone, params |-> params]
               ELSE IF r.ret.t = "dict" /\ "success" \in DOMAIN r.ret.d
                       /\ ~Truthy(r.ret.d["success"])
               THEN [success |-> FALSE,
                     error |-> IF "error" \in DOMAIN r.ret.d THEN r.ret.d["error"]
                               ELSE PyStr(<<"U">>),
                     status_code |-> IF "status_code" \in DOMAIN r.ret.d
                                     THEN r.ret.d["status_code"] ELSE PyInt(500),
                     response |-> PyNone, params |-> params]
               ELSE [success |-> TRUE, error |-> PyNone, status_code |-> PyInt(200),
                     response |-> r.ret, params |-> params]]
    IN  Tested(ApiCall(m, "GET", endpoint, params, NoWorkspace, FALSE, TRUE, NextFault(m, plan)))

\* lines 1030-1033: the id of the first ticket the first probe listed;
\* ok FALSE stands for the AttributeError of .get on a value that is no dict
FirstTicketId(tickets_result) ==
    IF tickets_result.t = "dict" /\ "tickets" \in DOMAIN tickets_result.d
       /\ Truthy(tickets_result.d["tickets"])
    THEN IF tickets_result.d["tickets"].l[1].t = "ticket"
         THEN [ok |-> TRUE, id |-> tickets_result.d["tickets"].l[1].k.id]
         ELSE [ok |-> FALSE, id |-> 0]
    ELSE [ok |-> TRUE, id |-> 0]

\* lines 1048-1061: the overall status
OverallStatus(endpoints) ==
    LET success_count == Cardinality({k \in DOMAIN endpoints : endpoints[k].success})
        total_count == Cardinality(DOMAIN endpoints)
    IN  IF success_count = total_count THEN "healthy"
        ELSE IF success_count > 0 THEN "partial"
        ELSE "failed"

\* ReportsManager.run_api_diagnostics: [m, ret, exc]; current_user_id 0
\* stands for None
RunApiDiagnostics(m, current_user_id, plan) ==
    LET Diagnostics(mm, endpoints, status, executed) ==
            [m |-> mm, exc |-> FALSE,
             ret |-> [t |-> "diagnostics", endpoints |-> endpoints, status |-> status,
                      executed |-> executed]]
        Complete(mm, endpoints, executed) ==
            Diagnostics(mm, endpoints, OverallStatus(endpoints), executed)
        Four == {"tickets", "agents", "tickets_standard_filter", "tickets_requester"}
        Conversations(endpoints, p5) ==
            Complete(p5.m, endpoints @@ ("ticket_conversations" :> p5.ret),
                     Four \cup {"ticket_conversations"})
        Ticketed(mm, endpoints, ticket) ==
            IF ~ticket.ok THEN Diagnostics(mm, endpoints, "error", Four)
            ELSE IF ticket.id # 0
            THEN Conversations(endpoints,
                               TestEndpoint(mm, Endpoint("tickets", ticket.id, ""),
                                            ("include" :> PyStr(<<"c">>)), plan))
            ELSE Complete(mm, endpoints
                                @@ ("ticket_conversations" :>
                                      [success |-> FALSE, error |-> PyStr(<<"N">>),
                                       status_code |-> PyNone, response |-> PyNone]),
                          Four)
        Requester(p1, p2, p3, p4) ==
            Ticketed(p4.m,
                     ("tickets" :> p1.ret) @@ ("agents" :> p2.ret)
                       @@ ("tickets_standard_filter" :> p3.ret)
                       @@ ("tickets_requester" :> p4.ret),
                     FirstTicketId(p1.ret.response))
        Filtered(p1, p2, p3) ==
            Requester(p1, p2, p3,
                      TestEndpoint(p3.m, Collection("tickets"),
                                   ("requester_id" :> PyInt(IF current_user_id # 0
                                                            THEN current_user_id ELSE 1))
                                     @@ ("per_page" :> PyInt(1)), plan))
        Agents(p1, p2) ==
            Filtered(p1, p2,
                     TestEndpoint(p2.m, Collection("tickets"),
                                  ("filter" :> PyStr(<<"w">>)) @@ ("per_page" :> PyInt(1)),
                                  plan))
        Tickets(p1) ==
            Agents(p1, TestEndpoint(p1.m, Collection("agents"), ("per_page" :> PyInt(1)), plan))
    IN  Tickets(TestEndpoint(m, Collection("tickets"), ("per_page" :> PyInt(1)), plan))

(***************************************************************************)
(* The diagnostics against a service that holds one ticket or none.        *)
(***************************************************************************)
InitDiagnostics ==
    /\ dry_run \in BOOLEAN
    /\ mgr_dry_run = dry_run
    /\ request_timestamps = <<>>
    /\ now = 0
    /\ recent_users = <<>>
    /\ requesters = [i \in Ids |-> IF i = 1 THEN User(1, "requesters", FALSE) ELSE NoUser]
    /\ agents = [i \in Ids |-> IF i = 2 THEN User(2, "agents", TRUE) ELSE NoUser]
    /\ \E watched \in BOOLEAN :
         tickets \in { <<>>, << Ticket(1, 1, PyInt(2), Stamp(3), watched,
                                       <<Conversation(1, 2, Stamp(5))>>) >> }
    /\ lastOp = NoOp
    /\ calls = <<>>
    /\ result = PyNone
    /\ raised = FALSE

ProbeFaults == {"none", "http500", "nondict"}

RunDiagnostics ==
    /\ Idle
    /\ \E current_user_id \in {0, 2}, plan \in Plans(MaxProbePlan, ProbeFaults) :
         Commit([op |-> "diagnostics", id |-> current_user_id, data |-> EmptyDict,
                 again |-> FALSE],
                RunApiDiagnostics(Machine, current_user_id, plan))

NextDiagnostics == RunDiagnostics

SpecDiagnostics == InitDiagnostics /\ [][NextDiagnostics]_vars

(***************************************************************************)
(* The URL path of a request, on the endpoint as the string the caller     *)
(* passes.  WorkspaceEndpoint above is this function on the endpoints the  *)
(* managers build.                                                         *)
(***************************************************************************)
\* s.startswith(p)
StartsWith(s, p) == Len(p) <= Len(s) /\ SubSeq(s, 1, Len(p)) = p

\* NON_WORKSPACE_ENDPOINTS, as strings of characters
NonWorkspaceNames ==
    { <<"r", "e", "q", "u", "e", "s", "t", "e", "r", "s">>,
      <<"a", "g", "e", "n", "t", "s">>,
      <<"d", "e", "p", "a", "r", "t", "m", "e", "n", "t", "s">>,
      <<"g", "r", "o", "u", "p", "s">>,
      <<"r", "o", "l", "e", "s">>,
      <<"l", "o", "c", "a", "t", "i", "o", "n", "s">>,
      <<"p", "r", "o", "d", "u", "c", "t", "s">>,
      <<"v", "e", "n", "d", "o", "r", "s">>,
      <<"a", "s", "s", "e", "t", "s">>,
      <<"p", "r", "o", "b", "l", "e", "m", "s">>,
      <<"r", "e", "l", "e", "a", "s", "e", "s">>,
      <<"c", "h", "a", "n", "g", "e", "s">>,
      <<"s", "o", "l", "u", "t", "i", "o", "n", "s">>,
      <<"u", "s", "e", "r", "s">> }

\* f"workspaces/{workspace_id}/{endpoint}"
Prefixed(endpoint, workspace_id) ==
    <<"w", "o", "r", "k", "s", "p", "a", "c", "e", "s", "/">> \o IntStr(workspace_id)
      \o <<"/">> \o endpoint

\* lines 161-182: workspace_endpoint
WorkspacePath(endpoint, workspace_id) ==
    IF /\ workspace_id # NoWorkspace
       /\ ~(\E non_ws_endpoint \in NonWorkspaceNames : StartsWith(endpoint, non_ws_endpoint))
       /\ ~StrIn(<<"w", "o", "r", "k", "s", "p", "a", "c", "e">>, endpoint)
    THEN Prefixed(endpoint, workspace_id)
    ELSE endpoint

\* the endpoints passed: a resource, of the list or not, alone, with an id,
\* or with an id and a sub-resource, and the same already under a workspace
Resources ==
    NonWorkspaceNames \cup { <<"t", "i", "c", "k", "e", "t", "s">>,
                            <<"a", "u", "d", "i", "t", "_", "l", "o", "g", "s">>,
                            <<"a", "g", "e", "n", "t", "s", "x">> }
SubPaths == { <<>>, <<"/", "1">>, <<"/", "1", "/", "m", "o", "v", "e", "_", "w", "o", "r", "k", "s", "p", "a", "c", "e">> }
Paths ==
    {res \o sub : res \in Resources, sub \in SubPaths}
      \cup {Prefixed(res \o sub, WorkspaceId) : res \in Resources, sub \in SubPaths}

\* the path is built for one endpoint and one workspace_id
BuildPath ==
    /\ \E endpoint \in Paths, workspace_id \in {NoWorkspace, WorkspaceId} :
         /\ lastOp' = [op |-> "path", id |-> workspace_id,
                       data |-> ("endpoint" :> PyStr(endpoint)), again |-> FALSE]
         /\ result' = PyStr(WorkspacePath(endpoint, workspace_id))
    /\ raised' = FALSE
    /\ UNCHANGED <<dry_run, mgr_dry_run, request_timestamps, now, recent_users,
                   requesters, agents, tickets, calls>>

NextPath == BuildPath

SpecPath == Init /\ [][NextPath]_vars

(***************************************************************************)
(* Properties.                                                             *)
(***************************************************************************)
MutatingOps == {"update", "deactivate", "activate", "forget"}
CallIdx == 1..Len(calls)

\* the calls of the last operation that were handed to the transport and are not GETs
Mutations == {k \in CallIdx : calls[k].method # "GET" /\ calls[k].handed}

\* the lookups of the last operation the service answered with the record
Hits == {k \in CallIdx : calls[k].method = "GET" /\ calls[k].handed
                          /\ calls[k].fault = "none" /\ calls[k].status = 200}

NoDelete == \A k \in CallIdx : calls[k].method # "DELETE"

\* C1: while the gateway's dry-run flag is on, no POST, PUT or DELETE is
\* handed to the transport and the call returns the synthetic success value;
\* a GET is still handed to the transport.
DryRunKeepsMutationsOffTheWire ==
    dry_run =>
        /\ \A k \in CallIdx : calls[k].handed <=> (calls[k].method = "GET")
        /\ (lastOp.op = "request" /\ calls[1].method # "GET")
              => (result = SyntheticSuccess /\ ~raised)

DryRunDeleteIntercepted ==
    /\ dry_run
    /\ lastOp.op = "request"
    /\ calls[1].method = "DELETE"
    /\ ~calls[1].handed
    /\ result = SyntheticSuccess

\* the timestamps of the trailing window, as the next call will find them
InWindow == SelectSeq(request_timestamps, LAMBDA ts : ts > now - RATE_LIMIT_WINDOW)

\* a step that is a call of the gateway
RequestStep ==
    /\ lastOp'.op = "request"
    /\ (calls' # calls \/ request_timestamps' # request_timestamps)

\* C2: a call that finds 50 or more timestamps in the trailing 60 seconds is
\* not sent before the oldest of them is 60 seconds old, and is sent then; a
\* call that finds 49 or fewer is sent without waiting.
RateLimitDelaysTheCall ==
    [][RequestStep =>
         /\ (Len(InWindow) >= 50) =>
               /\ now' >= SeqMin(InWindow) + 60
               /\ calls'[1].t_send = now'
         /\ (Len(InWindow) <= 49) => (now' = now /\ calls'[1].t_send = now)
         /\ (calls'[1].method = "GET") =>
               /\ calls'[1].handed
               /\ request_timestamps'[Len(request_timestamps')] = now']_vars

CallWaitedForOldest ==
    /\ lastOp.op = "request"
    /\ calls[1].cnt >= 50
    /\ calls[1].handed
    /\ calls[1].t_send >= calls[1].oldest + 60
    /\ calls[1].t_send > calls[1].t_call

\* the body update_user is to send for each input
ExpectedBody(d) ==
    CASE d = ("first_name" :> PyStr(<<"A">>)) @@ ("department_ids" :> PyInt(7)) ->
           ("first_name" :> PyStr(<<"A">>)) @@ ("department_ids" :> PyList(<<PyInt(7)>>))
      [] d = ("department_ids" :> PyStr(<<"5">>)) ->
           ("department_ids" :> PyList(<<PyInt(5)>>))
      [] d = ("department_ids" :> PyList(<<PyStr(<<"1", "2">>), PyInt(7)>>)) ->
           ("department_ids" :> PyList(<<PyInt(12), PyInt(7)>>))
      [] OTHER -> d

\* the probe of update_user got an agent payload
ProbeSawAgent ==
    /\ calls[1].url.ep = Endpoint("agents", lastOp.id, "")
    /\ calls[1].fault = "none"
    /\ calls[1].status = 200

DepartmentIdsSentAsIntList ==
    lastOp.op = "update" =>
        \A k \in Mutations :
            /\ DOMAIN calls[k].data = DOMAIN lastOp.data
            /\ \A f \in DOMAIN lastOp.data :
                 IF f = "department_ids"
                 THEN /\ calls[k].data[f].t = "list"
                      /\ \A j \in 1..Len(calls[k].data[f].l) : calls[k].data[f].l[j].t = "int"
                      /\ calls[k].data[f] = ExpectedBody(lastOp.data)[f]
                 ELSE calls[k].data[f] = lastOp.data[f]

ScalarStringSentAsList ==
    /\ lastOp.op = "update"
    /\ lastOp.data = ("department_ids" :> PyStr(<<"5">>))
    /\ Mutations # {}
    /\ \A k \in Mutations : calls[k].data["department_ids"] = PyList(<<PyInt(5)>>)

\* C5: with dry-run off, deactivate(id) on an entity that resolves issues
\* DELETE {pool}/{id}; when the service answers 204 it returns true and every
\* cached copy of the entity has its active flag false.
DeactivateIssuesDelete ==
    (lastOp.op = "deactivate" /\ ~dry_run /\ ~mgr_dry_run /\ Hits # {}) =>
        \E k \in Mutations :
            /\ calls[k].method = "DELETE"
            /\ \E h \in Hits :
                 calls[k].url.ep = Endpoint(calls[h].url.ep.res, lastOp.id, "")
            /\ calls[k].status = 204 =>
                 /\ result = PyTrue
                 /\ \A j \in 1..Len(recent_users) :
                      recent_users[j].id = lastOp.id => ~recent_users[j].active

\* C6 as stated: deactivate(id) returns false, without raising and without a
\* DELETE, whenever the entity is in neither pool, in every mode.
DeactivateUnresolvedFalseInEveryMode ==
    (/\ lastOp.op = "deactivate"
     /\ requesters[lastOp.id] = NoUser
     /\ agents[lastOp.id] = NoUser) =>
        (result = PyFalse /\ ~raised /\ NoDelete)

\* C6 as amended: with the manager's dry-run off, deactivate(id) returns
\* false, without raising and without a DELETE, whenever neither lookup
\* resolves the entity.
DeactivateUnresolvedFalse ==
    (lastOp.op = "deactivate" /\ ~mgr_dry_run /\ Hits = {}) =>
        (result = PyFalse /\ ~raised /\ NoDelete)

DeactivateOfUnknownId ==
    /\ lastOp.op = "deactivate" /\ ~mgr_dry_run
    /\ requesters[lastOp.id] = NoUser /\ agents[lastOp.id] = NoUser
    /\ Len(calls) = 2
    /\ \A k \in CallIdx : calls[k].status = 404
    /\ result = PyFalse

\* the entity is held by the agent pool alone
AgentPoolEntity(id) == agents[id] # NoUser /\ requesters[id] = NoUser

ForgetCalls == {k \in Mutations : calls[k].method = "DELETE" /\ calls[k].url.ep.sub = "forget"}

Failure(op) == IF op = "update" THEN PyNone ELSE PyFalse

\* the mutating call of the last operation met an HTTP error, a transport
\* failure, or a body that is not a JSON object
MutationFailed ==
    \E k \in Mutations : calls[k].fault \in {"http500", "neterr", "list"}

\* C8: update, deactivate, activate and forget never raise; on an HTTP
\* error, a transport failure or an unexpected response shape they return
\* absent (update) or false (the other three).
MutatorsNeverRaise ==
    lastOp.op \in MutatingOps =>
        /\ ~raised
        /\ (MutationFailed \/ (lastOp.op # "update" /\ Hits = {} /\ ~mgr_dry_run))
              => result = Failure(lastOp.op)

ActivateSwallowsTransportFailure ==
    /\ lastOp.op = "activate"
    /\ \E k \in Mutations : calls[k].fault = "neterr"
    /\ result = PyFalse
    /\ ~raised

\* C9: one invocation of update, deactivate, activate or forget hands at
\* most one mutating request to the transport.
AtMostOneMutationPerCall ==
    lastOp.op \in MutatingOps => Cardinality(Mutations) <= 1

ActivateSentOnePut ==
    /\ lastOp.op = "activate"
    /\ Cardinality(Mutations) = 1
    /\ \A k \in Mutations : calls[k].url.ep.sub = "reactivate" /\ calls[k].status = 200
    /\ result = PyTrue

\* how the service treated each call of the last operation
FaultsMet(cs) == [k \in 1..Len(cs) |-> cs[k].fault]

\* C10: byId called twice in succession for one id, the service unchanged in
\* between, returns equal payloads and leaves the cache with exactly one
\* entry for the id, at the front.
ByIdTwiceIsIdempotent ==
    [][(lastOp'.op = "byId" /\ lastOp'.again /\ lastOp.op = "byId"
        /\ FaultsMet(calls') = FaultsMet(calls)) =>
          /\ result' = result
          /\ result'.t = "user" =>
               /\ recent_users'[1] = result'.u
               /\ Cardinality({k \in 1..Len(recent_users') :
                                 recent_users'[k].id = lastOp'.id}) = 1]_vars

ByIdRepeatedWithHit ==
    /\ lastOp.op = "byId" /\ lastOp.again
    /\ result.t = "user"
    /\ result.u.id = lastOp.id
    /\ recent_users[1] = result.u
    /\ Len(request_timestamps) >= 2

InvalidEmails ==
    { PyStr(<<"b", "a", "d">>), PyStr(<<"a", "@", "b">>),
      PyStr(<<"a", "@", "b", ".", "c">>), PyStr(<<"@", "b", ".", "c", "o">>) }

LookupOps == {"byId", "byEmail", "byName"}

\* a call that met an HTTP error or a body that is no JSON object
Failed(k) == calls[k].fault \in {"http400", "http500", "neterr", "list"}

\* a call to the agent side: agents/..., or requesters with include_agents
AgentSide(k) ==
    calls[k].url.ep.res = "agents" \/ "include_agents" \in DOMAIN calls[k].data

\* C13: byId, byEmail and byName never raise; when every call they make
\* fails, byId and byEmail return absent and byName returns the empty list;
\* byName returns a list in every case; a failed requester-side call is
\* followed by the agent-side call.
LookupsNeverRaise ==
    lastOp.op \in LookupOps =>
        /\ ~raised
        /\ result.t \in (IF lastOp.op = "byName" THEN {"list"} ELSE {"none", "user"})
        /\ (calls # <<>> /\ \A k \in CallIdx : Failed(k)) =>
              result = (IF lastOp.op = "byName" THEN PyList(<<>>) ELSE PyNone)
        /\ (calls # <<>> /\ Failed(1)) => \E k \in CallIdx : AgentSide(k)

ByNameEveryCallFailed ==
    /\ lastOp.op = "byName"
    /\ Len(calls) = 6
    /\ \A k \in CallIdx : Failed(k)
    /\ result = PyList(<<>>)
    /\ ~raised

\* the fetches of a whole collection that follow a rejected name query
FallbackCalls(res) ==
    {k \in CallIdx : /\ k > 1
                     /\ calls[k - 1].fault = "http400"
                     /\ calls[k].url.ep = Collection(res)
                     /\ calls[k].fault = "none"}

\* the ids of the pool's records whose names contain the search terms
Matching(pool) ==
    {i \in Ids : /\ pool[i] # NoUser
                 /\ NameMatch(pool[i], lastOp.data.first_name, lastOp.data.last_name)}

ResultIds == {result.l[k].u.id : k \in 1..Len(result.l)}

\* C14: in byName, when the name query is rejected with 400 and the whole
\* collection is fetched instead, for the requester call and for the agent
\* call, the result has every record of that pool whose names contain the
\* search terms.
NameFallbackFindsAll ==
    lastOp.op = "byName" =>
        /\ FallbackCalls("requesters") # {} => Matching(requesters) \subseteq ResultIds
        /\ FallbackCalls("agents") # {} => Matching(agents) \subseteq ResultIds

CachedIds(ru) == {ru[k].id : k \in 1..Len(ru)}

\* the operation that ran last resolved an entity, which went into the cache
LastResolved ==
    CASE lastOp.op \in {"byId", "byEmail"} /\ result.t = "user" -> {result.u.id}
      [] lastOp.op = "byName" /\ result.l # <<>> -> {result.l[Len(result.l)].u.id}
      [] lastOp.op = "update" /\ result.t = "user" -> {result.u.id}
      [] lastOp.op \in {"deactivate", "activate", "forget"} /\ Hits # {} -> {lastOp.id}
      [] OTHER -> {}

\* C11: after any sequence of lookups, name searches, updates,
\* deactivations, activations and forgets the cache holds at most 10
\* entries, no two with one id, and the entity resolved most recently is at
\* the front; a lookup that adds an 11th distinct entity removes the entry at
\* the back.
RecentUsersIsBoundedMru ==
    /\ [](/\ Len(recent_users) <= 10
          /\ Cardinality(CachedIds(recent_users)) = Len(recent_users)
          /\ \A i \in LastResolved : recent_users[1].id = i)
    /\ [][(/\ Len(recent_users) = 10
           /\ lastOp'.op = "byId"
           /\ result'.t = "user"
           /\ result'.u.id \notin CachedIds(recent_users)) =>
             recent_users' = <<result'.u>> \o SubSeq(recent_users, 1, 9)]_vars

EleventhEvictsTheBack ==
    /\ lastOp.op = "byId" /\ lastOp.id = 1
    /\ result.t = "user"
    /\ Len(recent_users) = 10
    /\ recent_users[1].id = 1
    /\ recent_users[2].id = 2
    /\ recent_users[10].id = 5
    /\ 4 \notin CachedIds(recent_users)

(***************************************************************************)
(* The cascade of get_agent_ticket_interactions.                           *)
(***************************************************************************)
IsListing(c) == c.url.ep.res = "tickets" /\ c.url.ep.id = 0

\* the ticket listings among the calls of the last operation, in order
Listings == SelectSeq(calls, IsListing)

\* the approach a listing belongs to, told by its query parameters
ApproachOf(c) ==
    IF "filter" \in DOMAIN c.data THEN 2
    ELSE IF "order_by" \in DOMAIN c.data THEN 3 ELSE 1

\* the tickets of the store assigned to agent_id, as a listing shows them
AssignedTo(agent_id) ==
    LET mine == SelectSeq(tickets, LAMBDA k : k.responder_id = PyInt(agent_id))
    IN  [i \in 1..Len(mine) |-> PyTicket([mine[i] EXCEPT !.conversations = <<>>])]

WatchedAssignedTo(agent_id) == SelectSeq(AssignedTo(agent_id), LAMBDA v : v.k.watched)

\* what approach 1 or 2 yields, given what the environment did to its listing
YieldOf(c, agent_id) ==
    IF c.fault # "none" THEN <<>>
    ELSE IF ApproachOf(c) = 1 THEN AssignedTo(agent_id) ELSE WatchedAssignedTo(agent_id)

\* C15: the approaches are tried in the order 1, 2, 3, each at most once, and
\* none after an approach that yielded a non-empty list: when approach 1
\* yields tickets, its listing is the only request of the operation and the
\* operation returns exactly those tickets; approach 3 is tried only after
\* approaches 1 and 2 both yielded nothing.
FirstYieldEndsTheCascade ==
    lastOp.op = "interactions" =>
      /\ Len(Listings) >= 1
      /\ \A i \in 1..Len(Listings) : ApproachOf(Listings[i]) = i
      /\ YieldOf(calls[1], lastOp.id) # <<>> =>
           /\ Len(calls) = 1
           /\ result = PyList(YieldOf(calls[1], lastOp.id))
      /\ \A i \in 1..Len(Listings) :
           (i < 3 /\ YieldOf(Listings[i], lastOp.id) # <<>>) =>
             /\ Len(Listings) = i
             /\ result = PyList(YieldOf(Listings[i], lastOp.id))

\* the cascade for agent 2 ended by approach 1, which found tickets 1 and 3
ApproachOneYielded ==
    /\ lastOp.op = "interactions" /\ lastOp.id = 2
    /\ Len(calls) = 1 /\ calls[1].fault = "none" /\ ApproachOf(calls[1]) = 1
    /\ result.t = "list" /\ Len(result.l) = 2

\* the listing raised, or its tickets could not be read
ListingFailed(c) == c.fault \in {"http500", "nondict"}

\* agent_id is assigned a ticket or wrote in one
Involved(agent_id) ==
    \E i \in 1..Len(tickets) :
       \/ tickets[i].responder_id = PyInt(agent_id)
       \/ \E j \in 1..Len(tickets[i].conversations) :
             tickets[i].conversations[j].user_id = agent_id

\* C16: get_agent_ticket_interactions never raises and returns a list; an
\* approach whose listing failed is followed by the next approach; and when
\* every listing failed, or the agent has no ticket to find, all three
\* approaches were tried and the empty list is returned.
CascadeSurvivesFailures ==
    lastOp.op = "interactions" =>
      /\ ~raised
      /\ result.t = "list"
      /\ \A i \in 1..Len(Listings) :
           (i < 3 /\ ListingFailed(Listings[i])) => Len(Listings) > i
      /\ ((\A i \in 1..Len(Listings) : Listings[i].fault # "none") \/ ~Involved(lastOp.id)) =>
           /\ Len(Listings) = 3
           /\ result = PyList(<<>>)

\* all three listings were answered 500 and the operation returned []
EveryApproachFailed ==
    /\ lastOp.op = "interactions" /\ Involved(lastOp.id)
    /\ Len(Listings) = 3
    /\ \A i \in 1..3 : Listings[i].fault = "http500"
    /\ result = PyList(<<>>) /\ ~raised

(***************************************************************************)
(* get_comprehensive_user_activity.                                        *)
(***************************************************************************)
\* C17: when get_agent_activity_report raises for a user the probe found to
\* be an agent, get_comprehensive_user_activity does not raise: it returns
\* the requester pass's items, is_agent = True, and a summary that holds
\* agent_error and agent_activity_available = False.
AgentFailureIsContained ==
    (lastOp.op = "comprehensive" /\ result.agent_raised) =>
      /\ ~raised
      /\ result.t = "report"
      /\ result.all_items = result.requester_items
      /\ result.is_agent
      /\ "agent_error" \in DOMAIN result.combined_summary
      /\ "agent_activity_available" \in DOMAIN result.combined_summary
      /\ result.combined_summary["agent_activity_available"] = PyFalse
      /\ result.combined_summary["is_agent"] = PyTrue

\* the agent pass of user 2 raised while sorting (ticket 3 has no created_at)
\* and the report holds the two requester items
AgentPassRaised ==
    /\ lastOp.op = "comprehensive" /\ lastOp.id = 2
    /\ result.agent_raised /\ ~raised
    /\ Len(result.requester_items) = 2
    /\ \E i \in 1..Len(calls) : calls[i].url.ep.res = "agents" /\ calls[i].status = 200
    /\ "agent_error" \in DOMAIN result.combined_summary

\* the two passes' items in the order the merge reads them
BothPasses == result.requester_items \o result.agent_items

SameKey(a, b) ==
    /\ a.type = b.type
    /\ IF a.type = "ticket" THEN a.ticket_id = b.ticket_id
       ELSE a.conversation_id = b.conversation_id

\* item n of BothPasses is a requester item, or no earlier item has its key
Kept(n) ==
    \/ n <= Len(result.requester_items)
    \/ \A e \in 1..(n - 1) : ~SameKey(BothPasses[e], BothPasses[n])

Occurrences(items, x) == Cardinality({i \in 1..Len(items) : items[i] = x})

\* C18: the returned list holds every requester item, holds an agent item
\* exactly when no earlier item of the two passes is a ticket with its
\* ticket_id (a conversation with its conversation_id), holds nothing else,
\* and is in descending order of created_at.
MergedItemsAreDedupedAndSorted ==
    (lastOp.op = "comprehensive" /\ result.t = "report") =>
      /\ \A n \in 1..Len(BothPasses) :
           Occurrences(result.all_items, BothPasses[n]) = IF Kept(n) THEN 1 ELSE 0
      /\ Len(result.all_items) = Cardinality({n \in 1..Len(BothPasses) : Kept(n)})
      /\ \A i, j \in 1..Len(result.all_items) :
           i < j => ~StrLess(result.all_items[i].created_at.s,
                             result.all_items[j].created_at.s)

\* user 2's report: the agent pass's ticket 1 and conversation 1 were dropped
\* as duplicates and its ticket 3 was merged in, last in the order
AgentItemsMerged ==
    /\ lastOp.op = "comprehensive" /\ lastOp.id = 2 /\ result.t = "report"
    /\ Len(result.requester_items) = 2 /\ Len(result.agent_items) = 3
    /\ Len(result.all_items) = 3
    /\ result.all_items[3] = TicketItem(tickets[3], "agent")
    /\ result.all_items[1].type = "conversation"

(***************************************************************************)
(* get_inactive_users_report.                                              *)
(***************************************************************************)
Cutoff == Today - ThresholdDays

\* the ids of the users the service holds whose created_at is after the cutoff
RecentIds ==
    {i \in Ids : \E u \in {agents[i], requesters[i]} :
                    u # NoUser /\ ParseDate(UserGet(u, "created_at")).ok
                               /\ ParseDate(UserGet(u, "created_at")).day > Cutoff}

\* call c is a request of the last-activity cascade for user id
ResolvesFor(c, id) ==
    \/ c.url.ep.res \in {"requesters", "agents"} /\ c.url.ep.id = id
    \/ /\ c.url.ep.res = "tickets"
       /\ "requester_id" \in DOMAIN c.data
       /\ c.data["requester_id"] = PyInt(id)

InactiveIds == {result.inactive_users[i].id : i \in 1..Len(result.inactive_users)}

\* C19 as stated: a user created after the cutoff is never in the inactive
\* list and no request of the last-activity cascade is issued for that user.
RecentUsersAreNeverResolved ==
    lastOp.op = "inactive" =>
      \A id \in RecentIds :
         /\ id \notin InactiveIds
         /\ \A k \in 1..Len(calls) : ~ResolvesFor(calls[k], id)

\* C19, amended: a user created after the cutoff is never in the inactive
\* list, and the only requests of the last-activity cascade issued for that
\* user are those of the capability test that precedes the scan of the agents.
RecentUsersAreSkipped ==
    lastOp.op = "inactive" =>
      \A id \in RecentIds :
         /\ id \notin InactiveIds
         /\ \A k \in 1..Len(calls) :
               ResolvesFor(calls[k], id) => (result.probe.from < k /\ k <= result.probe.to)

\* requester 1, created on day 150 with a last login on day 60, was the
\* capability test's user and was then skipped by the scan that listed
\* requester 3
RecentUserSkipped ==
    /\ lastOp.op = "inactive" /\ lastOp.id = 1
    /\ 1 \in RecentIds
    /\ requesters[1].last_login_at = Stamp(60)
    /\ \E k \in 1..Len(calls) : ResolvesFor(calls[k], 1)
    /\ \E k \in 1..Len(calls) : calls[k].url.ep = Collection("requesters") /\ calls[k].fault = "none"
    /\ 3 \in InactiveIds /\ 1 \notin InactiveIds

\* the users the cascade was run for in the scan and gave no signal for
NoSignalAt == {i \in 1..Len(result.resolved) : ~Truthy(result.resolved[i].last_login)}

\* ... and those it gave a signal strptime rejects
BadSignalAt ==
    {i \in 1..Len(result.resolved) :
       Truthy(result.resolved[i].last_login) /\ ~ParseDate(result.resolved[i].last_login).ok}

EntriesOf(r) ==
    {i \in 1..Len(result.inactive_users) :
       result.inactive_users[i].id = r.id /\ result.inactive_users[i].type = r.type}

\* C20: every user the scan ran the cascade for without getting a signal has
\* exactly one entry in the inactive list, with last_login None and
\* days_inactive "Unknown", and adds one to users_without_login_data (which
\* also counts the users whose signal could not be parsed).
NoSignalMeansInactive ==
    lastOp.op = "inactive" =>
      /\ \A i \in NoSignalAt :
            /\ Cardinality(EntriesOf(result.resolved[i])) = 1
            /\ \A e \in EntriesOf(result.resolved[i]) :
                  /\ result.inactive_users[e].last_login = PyNone
                  /\ result.inactive_users[e].days_inactive = Unknown
      /\ result.summary.users_without_login_data
           = Cardinality(NoSignalAt) + Cardinality(BadSignalAt)

\* requester 3, with no date of activity anywhere and every call answered,
\* is listed as Unknown and tallied
UnknownRequesterListed ==
    /\ lastOp.op = "inactive"
    /\ \A k \in 1..Len(calls) : calls[k].fault = "none"
    /\ \E k \in 1..Len(calls) : ResolvesFor(calls[k], 3) /\ calls[k].url.ep.res = "tickets"
    /\ \E e \in 1..Len(result.inactive_users) :
          /\ result.inactive_users[e].id = 3
          /\ result.inactive_users[e].last_login = PyNone
          /\ result.inactive_users[e].days_inactive = Unknown
    /\ result.summary.users_without_login_data >= 1

\* C21: the inactive list the scan returns is ordered by days_inactive
\* descending, every "Unknown" entry standing before every entry with a
\* number.
InactiveListIsOrdered ==
    lastOp.op = "inactive" =>
      \A i, j \in 1..Len(result.inactive_users) :
         i < j =>
           /\ result.inactive_users[j].days_inactive = Unknown
                => result.inactive_users[i].days_inactive = Unknown
           /\ (result.inactive_users[i].days_inactive # Unknown
                 /\ result.inactive_users[j].days_inactive # Unknown)
                => result.inactive_users[i].days_inactive.i
                     >= result.inactive_users[j].days_inactive.i

\* agent 2 (140 days), requester 1 (160 days, by the ticket) and requester 3
\* (Unknown) were appended in that order and are returned in the reverse one
UnknownSortedFirst ==
    /\ lastOp.op = "inactive"
    /\ Len(result.inactive_users) = 3
    /\ Len(result.resolved) = 3
    /\ result.resolved[1].id = 2 /\ result.resolved[3].id = 3
    /\ result.inactive_users[1].id = 3
    /\ result.inactive_users[1].days_inactive = Unknown
    /\ result.inactive_users[2].id = 1
    /\ result.inactive_users[2].days_inactive = PyInt(160)
    /\ result.inactive_users[3].type = "Agent"
    /\ result.inactive_users[3].days_inactive = PyInt(140)

(***************************************************************************)
(* _get_user_last_login.                                                   *)
(***************************************************************************)
\* the users the scan ran the cascade for that exist only in the agent pool,
\* with a last login in their agent record and no agent fetch that failed
AgentOnlyAt ==
    {i \in 1..Len(result.resolved) :
       /\ requesters[result.resolved[i].id] = NoUser
       /\ agents[result.resolved[i].id] # NoUser
       /\ Truthy(agents[result.resolved[i].id].last_login_at)
       /\ \A k \in 1..Len(calls) :
             calls[k].url.ep = Endpoint("agents", result.resolved[i].id, "")
               => calls[k].fault = "none"}

\* C22: a failing step does not interrupt the last-activity cascade: for an
\* id that exists only in the agent pool, whose requester fetch therefore
\* fails, the result is the signal of the agent record.
StepFailureDoesNotInterrupt ==
    lastOp.op = "inactive" =>
      \A i \in AgentOnlyAt :
         result.resolved[i].last_login = agents[result.resolved[i].id].last_login_at

(***************************************************************************)
(* _make_request in diagnostic mode.                                       *)
(***************************************************************************)
\* the last step was a call of the gateway that reached the transport
Sent == lastOp.op = "request" /\ calls[1].handed

\* the value returned is a dict with success False and a non-empty error text
IsFailureValue(v) ==
    /\ v.t = "dict"
    /\ "success" \in DOMAIN v.d /\ v.d["success"] = PyFalse
    /\ "error" \in DOMAIN v.d /\ v.d["error"].t = "str" /\ v.d["error"].s # <<>>

\* the transport raised (status 0) or answered with a status >= 400
TransportFailed(c) == c.status = 0 \/ c.status >= 400

\* C23: a call with _diagnostic = True never raises, and when the transport
\* raises or answers with a status >= 400 (429 included) the value returned
\* is a dict with success False and an error text.
DiagnosticNeverRaises ==
    (lastOp.op = "request" /\ calls[1].diag) =>
      /\ ~raised
      /\ (calls[1].handed /\ TransportFailed(calls[1])) => IsFailureValue(result)

\* a diagnostic call whose transport raised returned the failure value
DiagnosticTransportFailure ==
    /\ Sent /\ calls[1].diag
    /\ calls[1].status = 0
    /\ ~raised
    /\ IsFailureValue(result)
    /\ "exception_type" \in DOMAIN result.d

\* C24: a 404 on an audit_logs endpoint returns, in diagnostic mode, a dict
\* with success False, status_code 404 and the response {'audit_logs': []},
\* and raises in normal mode.
AuditLogs404IsSoft ==
    (Sent /\ calls[1].status = 404 /\ calls[1].url.ep.res = "audit_logs") =>
      IF calls[1].diag
      THEN /\ ~raised
           /\ IsFailureValue(result)
           /\ "status_code" \in DOMAIN result.d /\ result.d["status_code"] = PyInt(404)
           /\ "response" \in DOMAIN result.d
           /\ result.d["response"] = PyDict([audit_logs |-> PyList(<<>>)])
      ELSE raised

\* a diagnostic GET of audit_logs answered 404 returned the empty collection
AuditLogs404InDiagnosticMode ==
    /\ Sent /\ calls[1].diag /\ calls[1].method = "GET"
    /\ calls[1].status = 404 /\ calls[1].url.ep.res = "audit_logs"
    /\ ~raised
    /\ result.d["response"] = PyDict([audit_logs |-> PyList(<<>>)])

\* C25: in diagnostic mode a 429 answer returns a dict with status_code 429
\* and retry_after, the Retry-After header of the answer, or 60 without one.
RateLimitCarriesRetryAfter ==
    (Sent /\ calls[1].diag /\ calls[1].status = 429) =>
      /\ result.t = "dict"
      /\ "status_code" \in DOMAIN result.d /\ result.d["status_code"] = PyInt(429)
      /\ "retry_after" \in DOMAIN result.d
      /\ result.d["retry_after"] =
           PyInt(IF calls[1].retry_after = PyNone THEN RATE_LIMIT_WINDOW
                 ELSE IntOf(calls[1].retry_after).i)

(***************************************************************************)
(* The workspace prefix.                                                   *)
(***************************************************************************)
\* the resource of a path: its first segment
ResourceOf(path) ==
    LET slashes == {k \in 1..Len(path) : path[k] = "/"}
    IN  IF slashes = {} THEN path
        ELSE SubSeq(path, 1, (CHOOSE k \in slashes : \A j \in slashes : k <= j) - 1)

\* C26: the URL path is workspaces/{id}/{path} when a workspace id is given,
\* the resource of the path is not in NON_WORKSPACE_ENDPOINTS and the path
\* is not already under workspaces/, and is the path unchanged otherwise.
PrefixExactlyWhenScoped ==
    lastOp.op = "path" =>
      result =
        PyStr(IF /\ lastOp.id # NoWorkspace
                 /\ ResourceOf(lastOp.data["endpoint"].s) \notin NonWorkspaceNames
                 /\ ResourceOf(lastOp.data["endpoint"].s) # <<"w", "o", "r", "k", "s", "p", "a", "c", "e", "s">>
              THEN Prefixed(lastOp.data["endpoint"].s, lastOp.id)
              ELSE lastOp.data["endpoint"].s)

(***************************************************************************)
(* The rate window.                                                        *)
(***************************************************************************)
\* C27: every call of _make_request, a mutating call intercepted by the dry
\* run included, adds exactly one timestamp, that of its sending, to the
\* timestamps of the trailing window.
EveryCallTakesASlot ==
    [][RequestStep => request_timestamps' = Append(InWindow, now')]_vars

(***************************************************************************)
(* run_api_diagnostics.                                                    *)
(***************************************************************************)
\* the probes that were sent and succeeded
Succeeded == {k \in result.executed : result.endpoints[k].success}

\* C28: the status is healthy exactly when every probe that was sent
\* succeeded, partial when some but not all did, failed when none did; the
\* ticket-with-conversations probe counts only when the first probe gave a
\* ticket id.
StatusCountsTheProbesSent ==
    (lastOp.op = "diagnostics" /\ result.status # "error") =>
      /\ result.status = "healthy" <=> Succeeded = result.executed
      /\ result.status = "partial" <=> (Succeeded # {} /\ Succeeded # result.executed)
      /\ result.status = "failed" <=> Succeeded = {}

(***************************************************************************)
(* activate_user.                                                          *)
(***************************************************************************)
\* call c is the PUT .../reactivate and its answer is present and has no
\* error: the synthetic success value, or a status below 400 with a
\* non-empty JSON object whose error field is absent or falsy
ReactivateOk(c) ==
    /\ c.method = "PUT" /\ c.url.ep.sub = "reactivate"
    /\ c.handed =>
          /\ c.status \in 200..399
          /\ \/ c.fault = "none"
             \/ /\ ParseResponse(FaultResp(c.fault)).t = "dict"
                /\ Truthy(ParseResponse(FaultResp(c.fault)))
                /\ ~Truthy(DictGet(ParseResponse(FaultResp(c.fault)), "error"))

\* after the step every cached copy of the entity is active
CachedCopyActive ==
    \A j \in 1..Len(recent_users') :
       recent_users'[j].id = lastOp'.id => recent_users'[j].active

\* the step changed the active flag of no cached entity
ActiveFlagsKept ==
    \A i \in 1..Len(recent_users), j \in 1..Len(recent_users') :
       recent_users[i].id = recent_users'[j].id
         => recent_users'[j].active = recent_users[i].active

\* what C29 says of one call of activate
ActivateAsStated ==
    /\ (result' = PyTrue) <=> (\E k \in 1..Len(calls') : ReactivateOk(calls'[k]))
    /\ (result' = PyTrue) => CachedCopyActive
    /\ (result' # PyTrue) => ActiveFlagsKept

\* C29 as stated: activate returns true exactly when the PUT
\* {pool}/{id}/reactivate answer is present and has no error field; on true
\* the cached copy is active, on false no cached active flag changed.
ActivateTrueIffPutSucceededInEveryMode ==
    [][lastOp'.op = "activate" => ActivateAsStated]_vars

\* C29, amended: with the manager's dry-run flag off, activate returns true
\* exactly when the PUT {pool}/{id}/reactivate answer is a non-empty JSON
\* object without an error, patching the cached copy on true and changing no
\* cached active flag on false; with the flag on it returns true, sends
\* nothing and leaves the cache as it is.
ActivateTrueIffPutSucceeded ==
    [][lastOp'.op = "activate" =>
         IF mgr_dry_run
         THEN result' = PyTrue /\ calls' = <<>> /\ recent_users' = recent_users
         ELSE ActivateAsStated]_vars

\* agent 2, inactive on the service, was fetched, reactivated by the PUT,
\* and its cached copy patched
ActivatePatchedTheCache ==
    /\ lastOp.op = "activate" /\ lastOp.id = 2
    /\ ~mgr_dry_run
    /\ result = PyTrue
    /\ Len(calls) = 3
    /\ calls[2].url.ep = Endpoint("agents", 2, "") /\ calls[2].fault = "none"
    /\ calls[3].handed /\ ReactivateOk(calls[3])
    /\ \E j \in 1..Len(recent_users) : recent_users[j].id = 2 /\ recent_users[j].active

(***************************************************************************)
(* The sub-resource deactivate_user and activate_user address.             *)
(***************************************************************************)
\* get_user_by_id found the entity of the last operation in pool: the GET
\* of {pool}/{id} was answered with the record
FoundIn(pool) ==
    \E k \in 1..Len(calls) :
       /\ calls[k].method = "GET"
       /\ calls[k].url.ep = Endpoint(pool, lastOp.id, "")
       /\ calls[k].status = 200 /\ calls[k].fault = "none"

\* the last operation sent a mutating request to a sub-resource of pool
MutationSentTo(pool) ==
    \E k \in 1..Len(calls) :
       /\ calls[k].method # "GET"
       /\ calls[k].url.ep.res = pool /\ calls[k].url.ep.id = lastOp.id

\* C30: deactivate and activate send their mutating request to agents/{id}
\* exactly when the lookup found the entity in the agent pool, and to
\* requesters/{id} exactly when it found it in the requester pool.
MutationAddressesThePool ==
    (lastOp.op \in {"deactivate", "activate"} /\ ~mgr_dry_run) =>
      /\ MutationSentTo("agents") <=> FoundIn("agents")
      /\ MutationSentTo("requesters") <=> FoundIn("requesters")

(***************************************************************************)
(* The threshold of the scan.                                              *)
(***************************************************************************)
\* the users the cascade gave a date for
DatedAt ==
    {i \in 1..Len(result.resolved) :
       Truthy(result.resolved[i].last_login) /\ ParseDate(result.resolved[i].last_login).ok}

\* the whole days between now and the date of resolved[i]
DaysInactiveAt(i) == Today - ParseDate(result.resolved[i].last_login).day

\* C31: a scanned user with a resolved date is in the inactive list, with
\* its number of days, if and only if that number is strictly greater than
\* threshold_days.
InactiveIffBeyondThreshold ==
    lastOp.op = "inactive" =>
      \A i \in DatedAt :
         /\ EntriesOf(result.resolved[i]) # {} <=> DaysInactiveAt(i) > ThresholdDays
         /\ \A e \in EntriesOf(result.resolved[i]) :
               result.inactive_users[e].days_inactive = PyInt(DaysInactiveAt(i))

\* requester 1, last seen exactly 90 days ago, was resolved and is not
\* listed; agent 2, last seen 140 days ago, is
AtThresholdNotListed ==
    /\ lastOp.op = "inactive"
    /\ \E i \in DatedAt :
          /\ result.resolved[i].id = 1 /\ result.resolved[i].type = "Requester"
          /\ DaysInactiveAt(i) = ThresholdDays
          /\ EntriesOf(result.resolved[i]) = {}
    /\ \E i \in DatedAt :
          /\ result.resolved[i].id = 2 /\ result.resolved[i].type = "Agent"
          /\ EntriesOf(result.resolved[i]) # {}

(***************************************************************************)
(* The last resort of the last-activity cascade.                           *)
(***************************************************************************)
\* the users the scan ran the cascade for whose requester record carries
\* neither last_login_at nor updated_at, who are no agent and filed no ticket
NothingButCreatedAt ==
    {i \in 1..Len(result.resolved) :
       /\ result.resolved[i].type = "Requester"
       /\ requesters[result.resolved[i].id] # NoUser
       /\ agents[result.resolved[i].id] = NoUser
       /\ ~Truthy(UserGet(requesters[result.resolved[i].id], "last_login_at"))
       /\ ~Truthy(UserGet(requesters[result.resolved[i].id], "updated_at"))
       /\ Truthy(UserGet(requesters[result.resolved[i].id], "created_at"))
       /\ \A k \in 1..Len(tickets) : tickets[k].requester_id # result.resolved[i].id}

\* C32: when the requester record, the agent record and the ticket query,
\* every one of them answered, give no last_login_at, updated_at or ticket,
\* the cascade returns the created_at of the fetched record.
CreatedAtIsTheLastResort ==
    (lastOp.op = "inactive" /\ \A k \in 1..Len(calls) : calls[k].fault = "none") =>
      \A i \in NothingButCreatedAt :
         result.resolved[i].last_login
           = UserGet(requesters[result.resolved[i].id], "created_at")

(***************************************************************************)
(* The capability test of the scan.                                        *)
(***************************************************************************)
\* the user of the capability test: test_user_id if given, otherwise the
\* first agent of the population (0 when there is none)
ProbeUser ==
    IF lastOp.id # 0 THEN lastOp.id
    ELSE IF \E i \in Ids : agents[i] # NoUser
    THEN CHOOSE i \in Ids : agents[i] # NoUser /\ \A j \in Ids : agents[j] # NoUser => i <= j
    ELSE 0

\* what the cascade gives for that user when every call is answered
ProbeResolution == GetUserLastLogin(Machine, ProbeUser, <<>>).ret

AllAnswered == \A k \in 1..Len(calls) : calls[k].fault = "none"

\* C33: in every scan, whatever include_agents and include_requesters are,
\* using_alternative_methods is true exactly when the cascade gives no signal
\* for the user of the capability test.
FlagReflectsTheProbe ==
    (lastOp.op = "inactive" /\ AllAnswered /\ ProbeUser # 0) =>
      (result.summary.using_alternative_methods <=> ProbeResolution = PyNone)

(***************************************************************************)
(* The capability test and the records of the scan.                        *)
(***************************************************************************)
\* the scan of the same remote data with the same include flags and
\* test_user_id t, every call answered
ScanWith(t) ==
    GetInactiveUsersReport(Machine, ThresholdDays, lastOp.data["include_agents"] = PyTrue,
                           lastOp.data["include_requesters"] = PyTrue, t, <<>>).ret

\* C34: two scans of the same remote data that differ only in test_user_id
\* return the same inactive records and the same counts of inactive users
\* and of users without login data.
ProbeAffectsOnlyTheFlag ==
    (lastOp.op = "inactive" /\ AllAnswered) =>
      \A t \in TestUserIds :
         LET Same(r) ==
                 /\ r.inactive_users = result.inactive_users
                 /\ r.summary.total_inactive_users = result.summary.total_inactive_users
                 /\ r.summary.inactive_agents = result.summary.inactive_agents
                 /\ r.summary.inactive_requesters = result.summary.inactive_requesters
                 /\ r.summary.users_without_login_data
                      = result.summary.users_without_login_data
         IN  Same(ScanWith(t))

\* a scan testing requester 1, who has a last login, reported no alternative
\* methods and listed somebody; the scan testing the first agent reports them
FlagDiffersRecordsDoNot ==
    /\ lastOp.op = "inactive" /\ lastOp.id = 1 /\ AllAnswered
    /\ lastOp.data["include_agents"] = PyTrue
    /\ ~result.summary.using_alternative_methods
    /\ result.probe.from < result.probe.to
    /\ result.inactive_users # <<>>
    /\ ScanWith(0).summary.using_alternative_methods

(***************************************************************************)
(* The retrieval of a population.                                          *)
(***************************************************************************)
PoolOf == IF lastOp.data["agents"] = PyTrue THEN "agents" ELSE "requesters"

\* the records the service answered call k with: none when the call failed
\* or the answer is no dict with the key of the pool
Batch(k) ==
    LET Got(resp) ==
            IF resp.kind = "http" /\ resp.status = 200 /\ resp.body.t = "json"
               /\ resp.body.v.t = "dict"
            THEN ListOf(resp.body.v, PoolOf) ELSE <<>>
    IN  Got(Serve([rq |-> requesters, ag |-> agents, tk |-> tickets], "GET",
                  calls[k].url.ep, calls[k].data, calls[k].fault).resp)

RECURSIVE PagesUpTo(_)
PagesUpTo(k) == IF k = 0 THEN <<>> ELSE PagesUpTo(k - 1) \o Batch(k)

\* C35: the retrieval requests pages 1, 2, ... of size 100 in order, every
\* page before the last requested one was full, the last one is empty,
\* short, malformed or failed, and the records returned are those of the
\* requested pages in order.
PagesInOrderUntilShort ==
    lastOp.op = "getall" =>
      /\ Len(calls) >= 1
      /\ \A k \in 1..Len(calls) :
            /\ calls[k].method = "GET"
            /\ calls[k].url.ep = Collection(PoolOf)
            /\ calls[k].data = ("page" :> PyInt(k)) @@ ("per_page" :> PyInt(100))
      /\ \A k \in 1..(Len(calls) - 1) : Len(Batch(k)) = 100
      /\ Len(Batch(Len(calls))) < 100
      /\ result = PyList(PagesUpTo(Len(calls)))

\* two full pages were followed by a page that failed: 200 records
TwoFullPagesThenFailure ==
    /\ lastOp.op = "getall"
    /\ Len(calls) = 3
    /\ calls[1].fault = "full" /\ calls[2].fault = "full" /\ calls[3].fault = "http500"
    /\ result.t = "list" /\ Len(result.l) = 200
    /\ result.l[101] = PyInt(101)

(***************************************************************************)
(* update_user under the manager's dry-run flag.                           *)
(***************************************************************************)
\* get_user_by_id was answered with the record of pool for the entity of the
\* operation that ran last (call 1 is the probe of _is_agent)
AnsweredFrom(pool, cs) ==
    \E k \in 2..Len(cs) :
       /\ cs[k].url.ep = Endpoint(pool, lastOp'.id, "")
       /\ cs[k].fault = "none" /\ cs[k].status = 200

\* C36: with the manager in dry-run, update issues no PUT and changes
\* nothing on the service; when get_user_by_id resolves the entity it returns
\* that entity merged with the requested fields and leaves the unmodified
\* entity at the head of the cache; when it does not, it returns None and
\* leaves the cache as it was.
DryRunUpdateIsAPreview ==
    [][(lastOp'.op = "update" /\ mgr_dry_run) =>
         /\ ~raised'
         /\ \A k \in 1..Len(calls') : calls'[k].method = "GET"
         /\ requesters' = requesters /\ agents' = agents
         /\ IF AnsweredFrom("requesters", calls') \/ AnsweredFrom("agents", calls')
            THEN /\ recent_users' # <<>>
                 /\ recent_users'[1] = IF AnsweredFrom("requesters", calls')
                                       THEN requesters[lastOp'.id] ELSE agents[lastOp'.id]
                 /\ result' = PyUser(Merge(recent_users'[1], lastOp'.data))
            ELSE result' = PyNone /\ recent_users' = recent_users]_vars

\* a dry-run update of requester 1 returned a preview that differs from the
\* entity it left in the cache, which is the one the service holds
PreviewDiffersFromCache ==
    /\ lastOp.op = "update" /\ lastOp.id = 1 /\ mgr_dry_run
    /\ Len(calls) >= 2
    /\ result.t = "user"
    /\ recent_users # <<>> /\ recent_users[1] = requesters[1]
    /\ result.u # recent_users[1]
    /\ result.u.department_ids = lastOp.data["department_ids"]

(***************************************************************************)
(* The entries approach 3 logs for the conversations it could not check.   *)
(***************************************************************************)
\* how many entries of log are in kinds
EntriesIn(log, kinds) == Cardinality({i \in 1..Len(log) : log[i] \in kinds})

\* the requests for the conversations of a ticket that raised
FailedFetches ==
    {k \in 1..Len(calls) : calls[k].url.ep.res = "tickets" /\ calls[k].url.ep.id # 0
                           /\ calls[k].fault = "http500"}

\* C37: in one run of approach 3, however many requests for the
\* conversations of a ticket fail, at most three error entries about them
\* are logged and at most one notice of suppression.
ConversationErrorsAreBounded ==
    lastOp.op = "scanning" =>
      /\ EntriesIn(result.log, {"conversations", "checking"}) <= 3
      /\ EntriesIn(result.log, {"suppressed"}) <= 1

(***************************************************************************)
(* The requests of the trailing window at the instant of a send.           *)
(***************************************************************************)
\* the recorded timestamps less than 60 seconds old at time t
YoungerThanWindowAt(t) ==
    {i \in 1..Len(request_timestamps) : request_timestamps[i] > t - 60}

\* C38: at the instant a request is handed to the transport, at most 50 of
\* the recorded timestamps, the one of this request among them, are less
\* than 60 seconds old.
AtMostFiftyInTheWindow ==
    (lastOp.op = "request" /\ calls[1].handed) =>
      /\ request_timestamps # <<>>
      /\ request_timestamps[Len(request_timestamps)] = calls[1].t_send
      /\ Cardinality(YoungerThanWindowAt(calls[1].t_send)) <= 50

\* a request that found the window full waited for the oldest one to leave
\* it and was sent as the fiftieth of its window
SentAsTheFiftieth ==
    /\ lastOp.op = "request" /\ calls[1].handed
    /\ calls[1].cnt >= 50
    /\ calls[1].t_send > calls[1].t_call
    /\ Cardinality(YoungerThanWindowAt(calls[1].t_send)) = 50

(***************************************************************************)
(* The tally of the users without login data.                              *)
(***************************************************************************)
UnknownEntries ==
    {e \in 1..Len(result.inactive_users) : result.inactive_users[e].days_inactive = Unknown}

\* C39: in every scan result users_without_login_data equals the number of
\* returned records whose days_inactive is "Unknown".
NoLoginCountMatchesUnknownRecords ==
    lastOp.op = "inactive" =>
      result.summary.users_without_login_data = Cardinality(UnknownEntries)

(***************************************************************************)
(* The mutators under the manager's dry-run flag.                          *)
(***************************************************************************)
\* C40: while the manager's dry-run flag is on, deactivate, activate and
\* forget return true for every id without any call of the gateway, not even
\* a lookup, and leave the cache, the rate window and the service as they
\* were.
DryRunMutatorsCallNothing ==
    [][(lastOp'.op \in {"deactivate", "activate", "forget"} /\ mgr_dry_run) =>
         /\ result' = PyTrue /\ ~raised'
         /\ calls' = <<>>
         /\ recent_users' = recent_users
         /\ request_timestamps' = request_timestamps /\ now' = now
         /\ requesters' = requesters /\ agents' = agents]_vars

\* forget of id 3, which no pool holds, answered true under dry-run with
\* an entity in the cache and a timestamp in the window, and called nothing
DryRunForgetOfUnknownId ==
    /\ lastOp.op = "forget" /\ lastOp.id = 3 /\ mgr_dry_run
    /\ requesters[3] = NoUser /\ agents[3] = NoUser
    /\ result = PyTrue
    /\ calls = <<>>
    /\ recent_users # <<>>
    /\ request_timestamps # <<>>
====
